---- MODULE Spec2Model ----
(***************************************************************************)
(* Order-processing pipeline: OrderService (order.service.ts) on top of    *)
(* RedisService (redis.service.ts) and KafkaService (kafka.service.ts).    *)
(*                                                                         *)
(* Every `await` of the source is a scheduling point: one action of the    *)
(* model is the part of a handler that runs between two awaits, together   *)
(* with the store/bus command that the await waits for.                    *)
(*                                                                         *)
(* Amounts are exact decimals counted in thousandths (20.00 is 20000), so  *)
(* that rounding to two decimals is observable.  A processingTime of 0     *)
(* stands for an absent processingTime (the source tests it for truth).    *)
(***************************************************************************)
EXTENDS Integers, Sequences, FiniteSets, TLC

(***************************************************************************)
(* Bounds of the model.                                                    *)
(***************************************************************************)
MaxWebhooks == 1
MaxRetryCalls == 1
MaxFaults == 1
MaxLockValues == 3
MaxOverLimit == 1

WebSlots == {1, 2}
\* one id for every processWebhook call the request slots can make
OrderIds == 1..(MaxWebhooks * Cardinality(WebSlots))
RetrySlots == {1, 2}
ProcTimes == {1}
SeedRetryCounts == {2, 3}

(***************************************************************************)
(* Program constants.                                                      *)
(***************************************************************************)
maxRetriesPlusOne == 3 + 1
maxRetries == 3
RecentCapacity == 100
webhookLimit == 100
webhookWindowSeconds == 60
orderTtlSeconds == 3600

VARIABLES
  cache,          \* redis keys order:<id>  (NoOrder when the key is absent)
  expiry,         \* their time to live in seconds (NoExpiry: none, 0 when the key is absent)
  recent,         \* redis list recent-orders, head first
  metrics,        \* redis key system-metrics (NoMetrics when absent)
  topic,          \* orders topic: per message key, the messages not yet consumed
  notifications,  \* notifications topic: its latest record and the parity of its length
  deadLetter,     \* dead-letter topic: its latest record and the parity of its length
  msIds,          \* order ids generated during the current millisecond
  web,            \* in-flight processWebhook calls, per request slot
  webCalls,       \* number of processWebhook calls started (MaxWebhooks per caller)
  retry,          \* in-flight retryFailedOrder calls, per request slot
  retryCalls,     \* number of retryFailedOrder calls started (MaxRetryCalls per caller)
  retryTrue,      \* per order id: number of retryFailedOrder calls that returned true
  accepted,       \* order ids returned by processWebhook
  consumer,       \* the eachMessage invocation of the consumer (one at a time)
  faults,         \* what the environment did: keys expired, messages of other producers
  locks,          \* redis keys lock:<key>  (NoToken when the key is absent)
  lockers,        \* per caller of acquireLock / releaseLock: its token and last result
  tokens,         \* number of lock values generated
  rate,           \* redis rate counter keys: count and time to live
  limiter,        \* in-flight checkRateLimit calls, per caller
  calls,          \* RedisService methods called directly: the call in flight, its result
  inserted,       \* number of addToRecentOrders calls that succeeded
  listeners,      \* orderUpdateCallbacks, in registration order
  invoked,        \* the callback invocations so far: <<notification, listener>>
  received,       \* number of order-update notifications handleMessage received
  subscriber,     \* RedisService's subscriber connection: "down" or "subscribed"
  orderUpdates,   \* orders published on channel order-updates, not yet handed to handleMessage
  connectedClients, \* WebSocketService.connectedClients: the socket ids it tracks
  sockets,        \* per socket id: the connection, its rooms, what the socket was sent
  emitted,        \* the latest broadcastOrderUpdate: its order and the copies each socket got
  kafka           \* KafkaService: isConnected, its producer and consumer, where disconnect() is

vars == <<cache, expiry, recent, metrics, topic, notifications, deadLetter, msIds,
          web, webCalls, retry, retryCalls, retryTrue, accepted, consumer,
          faults, locks, lockers, tokens, rate, limiter,
          calls, inserted, listeners, invoked, received,
          subscriber, orderUpdates, connectedClients, sockets, emitted, kafka>>

\* the state of WebSocketService and of the pub/sub channel that feeds it
socketio == <<connectedClients, sockets, emitted>>
gateway == <<subscriber, orderUpdates, socketio>>

\* the state of RedisService methods when they are called on their own, and
\* of the gateway
direct == <<calls, inserted, listeners, invoked, received, gateway, kafka>>

\* the state of the lock and rate-limit commands, which the order pipeline never uses
aux == <<faults, locks, lockers, tokens, rate, limiter, direct>>

store == <<cache, expiry, recent, metrics>>
bus == <<topic, notifications, deadLetter>>

(***************************************************************************)
(* Data.                                                                   *)
(***************************************************************************)
NoOrder ==
  [id |-> 0, customerId |-> "", items |-> <<>>, status |-> "absent",
   totalAmount |-> 0, processingTime |-> 0, retryCount |-> 0]

NoMetrics ==
  [totalOrders |-> -1, completedOrders |-> 0, failedOrders |-> 0, pendingOrders |-> 0]

Item(n, q, p) == [name |-> n, quantity |-> q, price |-> p]

\* Webhook payloads: status "absent" / totalAmount -1 stand for an absent field.
Payload(c, its, st, ta) ==
  [customerId |-> c, items |-> its, status |-> st, totalAmount |-> ta]

Payloads ==
  { Payload("C2", <<Item("Y", 1, 1005), Item("Z", 2, 500)>>, "absent", -1),
    Payload("C2", <<Item("Y", 1, 1005), Item("Z", 2, 500)>>, "completed", 999000),
    Payload("",   <<Item("X", 2, 10000)>>, "absent", -1),
    Payload("C1", <<>>, "absent", -1),
    Payload("C1", <<Item("X", 0, 10000)>>, "absent", -1),
    Payload("C1", <<Item("X", 1, 10000), Item("R", -1, 1000)>>, "absent", -1),
    Payload("C1", <<Item("X", 1, -5000)>>, "absent", -1),
    Payload("C1", <<Item("", 1, 10000)>>, "absent", -1),
    Payload("C1", <<Item("F", 1, 0)>>, "absent", -1),
    Payload("C1", <<Item("T", 1, 4)>>, "absent", -1) }

(***************************************************************************)
(* Pure functions of OrderService and RedisService.                        *)
(***************************************************************************)
RECURSIVE SumItems(_)
\* items.reduce((sum, item) => sum + item.price * item.quantity, 0)
SumItems(items) ==
  IF items = <<>> THEN 0
  ELSE Head(items).price * Head(items).quantity + SumItems(Tail(items))

\* Math.round(total * 100) / 100 on thousandths: half-way cases round up.
RoundCents(total) == ((total + 5) \div 10) * 10

calculateTotalAmount(items) == RoundCents(SumItems(items))

\* validateOrder without its last test (lines 291-293).
validateOrderNoTotal(order) ==
  IF order.customerId = "" THEN "Customer ID is required"
  ELSE IF Len(order.items) = 0 THEN "Order must contain at least one item"
  ELSE IF \E i \in 1..Len(order.items) :
            \/ order.items[i].name = ""
            \/ order.items[i].quantity <= 0
            \/ order.items[i].price < 0
       THEN "Invalid item"
  ELSE "ok"

\* validateOrder: the error it throws, or "ok".
validateOrder(order) ==
  IF order.customerId = "" THEN "Customer ID is required"
  ELSE IF Len(order.items) = 0 THEN "Order must contain at least one item"
  ELSE IF \E i \in 1..Len(order.items) :
            \/ order.items[i].name = ""
            \/ order.items[i].quantity <= 0
            \/ order.items[i].price < 0
       THEN "Invalid item"
  ELSE IF order.totalAmount <= 0 THEN "Total amount must be greater than zero"
  ELSE "ok"

\* Lines 31-39 with status: payload.order.status || 'pending'.
NewOrderPayloadStatus(orderId, payload) ==
  [id |-> orderId, customerId |-> payload.customerId, items |-> payload.items,
   status |-> IF payload.status = "absent" THEN "pending" ELSE payload.status,
   totalAmount |-> calculateTotalAmount(payload.items),
   processingTime |-> 0, retryCount |-> 0]

\* Lines 31-39 with totalAmount: payload.order.totalAmount ?? calculateTotalAmount(items).
NewOrderPayloadTotal(orderId, payload) ==
  [id |-> orderId, customerId |-> payload.customerId, items |-> payload.items,
   status |-> "pending",
   totalAmount |-> IF payload.totalAmount = -1 THEN calculateTotalAmount(payload.items)
                   ELSE payload.totalAmount,
   processingTime |-> 0, retryCount |-> 0]

\* The order object processWebhook builds from a payload (lines 31-39).
NewOrder(orderId, payload) ==
  [id |-> orderId, customerId |-> payload.customerId, items |-> payload.items,
   status |-> "pending", totalAmount |-> calculateTotalAmount(payload.items),
   processingTime |-> 0, retryCount |-> 0]

Event(type, order, source) == [type |-> type, order |-> order, source |-> source]

\* RedisService.updateOrderStatus / OrderService.updateOrderStatus:
\* { ...existing, status, ...(processingTime && { processingTime }) }
WithStatus(order, status, processingTime) ==
  [order EXCEPT !.status = status,
                !.processingTime = IF processingTime # 0 THEN processingTime ELSE @]

SubSeqTo(s, n) == SubSeq(s, 1, IF n < Len(s) THEN n ELSE Len(s))

\* lpush + ltrim(0, 99)
PushRecent(list, order) == SubSeqTo(<<order>> \o list, RecentCapacity)

\* LRANGE key 0 stop: the entries at offsets 0..stop, where a negative stop
\* counts from the end of the list (-1 is the last entry)
lrange(list, stop) ==
  LET last == IF stop < 0 THEN Len(list) + stop ELSE stop IN
  IF last < 0 THEN <<>> ELSE SubSeqTo(list, last + 1)

\* getRecentOrders(limit): lrange(0, min(limit, 100) - 1)
getRecentOrders(list, limit) ==
  lrange(list, (IF limit < RecentCapacity THEN limit ELSE RecentCapacity) - 1)

CountStatus(list, statuses) ==
  Cardinality({i \in 1..Len(list) : list[i].status \in statuses})

\* calculateMetrics over getRecentOrders(100)
calculateMetrics(list) ==
  LET recentOrders == getRecentOrders(list, 100) IN
  [totalOrders |-> Len(recentOrders),
   completedOrders |-> CountStatus(recentOrders, {"completed"}),
   failedOrders |-> CountStatus(recentOrders, {"failed"}),
   pendingOrders |-> CountStatus(recentOrders, {"pending", "processing"})]

(***************************************************************************)
(* Initial states: the empty system, or a system in which one order has    *)
(* been created, has failed and has been retried k times, all its events   *)
(* consumed (a state the pipeline reaches after k failed attempts).        *)
(***************************************************************************)
SeedOrder == NewOrder(1, Payload("C2", <<Item("Y", 1, 1005), Item("Z", 2, 500)>>, "absent", -1))

NoRecord == [type |-> "none", orderId |-> 0, newStatus |-> "none"]
EmptyTopic == [last |-> NoRecord, parity |-> 0]

\* producer.send of one record to a topic of which only the end is observed
Send(t, record) == [last |-> record, parity |-> 1 - t.parity]

\* resp: 0 while no response was sent, -1 for an error, else the orderId returned
IdleWeb == [pc |-> "idle", order |-> NoOrder, resp |-> 0]
\* orderId: the argument of the latest call; resp: its response, once sent
IdleRetry == [pc |-> "idle", orderId |-> 0, order |-> NoOrder, resp |-> "none"]
\* expired: order keys whose time to live ran out; foreign: messages other
\* producers put on the orders topic, and the type of the latest;
\* lost: dead-letter records whose send failed; failed: commands of the
\* pipeline that the store or the bus did not execute, and the latest of them
NoFaults ==
  [expired |-> 0, foreign |-> 0, latest |-> "none", lost |-> 0,
   failed |-> 0, command |-> "none"]

LockKeys == {"a", "b"}
RateKeys == {"webhook:ip1"}
Callers == {1, 2}
NoToken == 0
\* token: per key, the lock value the caller got from acquireLock and has not
\* given to releaseLock; resp, key: the result and the key of its latest call
IdleLocker == [token |-> [k \in LockKeys |-> NoToken], resp |-> "none", key |-> "a"]
\* A rate counter key: its value and its time to live in seconds; NoCounter
\* when the key is absent, ttl NoExpiry when the key has no expiry.
NoCounter == [count |-> 0, ttl |-> 0]
NoExpiry == -1
\* current: what incr answered; resp: what the latest call returned; logged:
\* whether its catch ran
IdleLimiter ==
  [pc |-> "idle", key |-> "webhook:ip1", limit |-> 0, windowSeconds |-> 0,
   current |-> 0, resp |-> "none", logged |-> FALSE]

IdleConsumer ==
  [pc |-> "idle", event |-> Event("none", NoOrder, ""), target |-> "none",
   processingTime |-> 0, inCatch |-> FALSE, existing |-> NoOrder]

\* op, orderId: the latest RedisService method called and its order id
\* (status, processingTime, limit: its other arguments);
\* existing: what updateOrderStatus read; order, list: what getOrder and
\* getRecentOrders returned; resp: how the call ended; unwritten: no write
\* to the key and no expiry of it since this call read it; repeated: the
\* caller's call before was such a read of the same key
IdleCall ==
  [pc |-> "idle", op |-> "none", orderId |-> 0, status |-> "none", processingTime |-> 0,
   limit |-> 0, existing |-> NoOrder, order |-> NoOrder, list |-> <<>>, resp |-> "none",
   unwritten |-> FALSE, repeated |-> FALSE]

\* A socket.io socket: state new (no client has connected with this id yet),
\* open or closed; the rooms it joined; pc: where its sendInitialData is;
\* metrics, orders: the initial data it was sent; reply: the latest
\* recent-orders reply it was sent
SocketIds == {1, 2}
IdleSocket ==
  [state |-> "new", rooms |-> {}, pc |-> "idle", metrics |-> NoMetrics, orders |-> <<>>,
   reply |-> <<>>]
\* copies: per socket, how many order-update messages the broadcast sent it
NoBroadcast == [order |-> NoOrder, copies |-> [c \in SocketIds |-> 0]]

\* The subscriber connection is down (what is published on order-updates is
\* lost) and no client has connected.
\* KafkaService after connect(): producer and consumer connected, the consumer
\* running, disconnect() not called
KafkaConnected ==
  [isConnected |-> TRUE, producer |-> "connected", consumer |-> "running", pc |-> "idle"]

GatewayDown ==
  /\ subscriber = "down"
  /\ listeners = <<>>
  /\ orderUpdates = <<>>
  /\ connectedClients = {}
  /\ sockets = [c \in SocketIds |-> IdleSocket]
  /\ emitted = NoBroadcast

\* Nothing expired, no message of another producer, no lock, no rate counter,
\* no direct call of the store.
InitAux ==
  /\ faults = NoFaults
  /\ locks = [k \in LockKeys |-> NoToken]
  /\ lockers = [c \in Callers |-> IdleLocker]
  /\ tokens = 0
  /\ rate = [k \in RateKeys |-> NoCounter]
  /\ limiter = [c \in Callers |-> IdleLimiter]
  /\ calls = [c \in Callers |-> IdleCall]
  /\ inserted = 0
  /\ invoked = <<>>
  /\ received = 0
  /\ kafka = KafkaConnected

InitEmpty ==
  /\ cache = [i \in OrderIds |-> NoOrder]
  /\ expiry = [i \in OrderIds |-> 0]
  /\ recent = <<>>
  /\ metrics = NoMetrics
  /\ retryTrue = [i \in OrderIds |-> 0]
  /\ accepted = {}
  /\ webCalls = 0

InitSeeded ==
  \E k \in SeedRetryCounts :
    /\ cache = [i \in OrderIds |->
                  IF i = 1
                  THEN [SeedOrder EXCEPT !.status = "failed", !.retryCount = k,
                                         !.processingTime = 1]
                  ELSE NoOrder]
    /\ expiry = [i \in OrderIds |-> IF i = 1 THEN orderTtlSeconds ELSE 0]
    /\ recent = <<SeedOrder>>
    /\ metrics = calculateMetrics(<<SeedOrder>>)
    /\ retryTrue = [i \in OrderIds |-> IF i = 1 THEN k ELSE 0]
    /\ accepted = {1}
    /\ webCalls = 1

\* How many calls of an endpoint the server has in flight at a time.
InitPipeline(webInFlight, retryInFlight) ==
  /\ InitEmpty \/ InitSeeded
  /\ topic = [i \in OrderIds |-> <<>>]
  /\ notifications = EmptyTopic
  /\ deadLetter = EmptyTopic
  /\ msIds = {}
  /\ web = [s \in WebSlots |-> IF s <= webInFlight THEN IdleWeb ELSE [IdleWeb EXCEPT !.pc = "off"]]
  /\ retry = [s \in RetrySlots |-> IF s <= retryInFlight THEN IdleRetry ELSE [IdleRetry EXCEPT !.pc = "off"]]
  /\ retryCalls = 0
  /\ consumer = IdleConsumer
  /\ InitAux

InitWith(webInFlight, retryInFlight) ==
  InitPipeline(webInFlight, retryInFlight) /\ GatewayDown

\* calls of one endpoint one after the other (each concurrent with the consumer
\* and with the calls of the other endpoint)
Init == InitWith(1, 1)

\* two retryFailedOrder calls in flight together
InitConcurrent == InitWith(1, 2)

\* two processWebhook calls in flight together, nobody retrying
InitBurst == InitWith(2, 0)


(***************************************************************************)
(* OrderService.processWebhook                                             *)
(***************************************************************************)
Min(S) == CHOOSE x \in S : \A y \in S : x <= y

\* `ORD-${Date.now()}-${Math.floor(Math.random() * 1000)}`: an id no earlier
\* millisecond produced, or one already produced during this millisecond.
\* Ids of earlier milliseconds differ in their Date.now() part; which unused
\* id is taken is immaterial, so the least one is.
GeneratedIds ==
  LET unused == {i \in OrderIds : cache[i] = NoOrder} IN
  (IF unused = {} THEN {} ELSE {Min(unused)}) \cup msIds

\* Lines 29-54: build the order, validate it, cacheOrder (setex order:<id>).
\* A validation error is thrown before anything is written.
WebStart(s, payload) ==
  /\ web[s].pc = "idle"
  /\ \A t \in WebSlots : t < s => web[t].pc # "idle"
  /\ webCalls < MaxWebhooks * Cardinality({t \in WebSlots : web[t].pc # "off"})
  /\ webCalls' = webCalls + 1
  /\ \E orderId \in GeneratedIds :
       LET order == NewOrder(orderId, payload) IN
       IF validateOrder(order) # "ok"
       THEN /\ web' = [web EXCEPT ![s] = [IdleWeb EXCEPT !.resp = -1]]
            /\ UNCHANGED <<cache, expiry, msIds>>
       ELSE /\ cache' = [cache EXCEPT ![orderId] = order]
            /\ expiry' = [expiry EXCEPT ![orderId] = orderTtlSeconds]
            /\ msIds' = msIds \cup {orderId}
            /\ web' = [web EXCEPT ![s] = [IdleWeb EXCEPT !.pc = "recent", !.order = order]]
  /\ UNCHANGED <<recent, metrics, bus, retry, retryCalls, retryTrue, accepted, consumer, aux>>

\* Line 55: addToRecentOrders (lpush, ltrim 0 99).
WebRecent(s) ==
  /\ web[s].pc = "recent"
  /\ recent' = PushRecent(recent, web[s].order)
  /\ web' = [web EXCEPT ![s].pc = "publish"]
  /\ UNCHANGED <<cache, expiry, metrics, bus, msIds, webCalls, retry, retryCalls, retryTrue,
                 accepted, consumer, aux>>

\* Line 58: publishOrderEvent(ORDER_CREATED), keyed by order.id.
WebPublish(s) ==
  /\ web[s].pc = "publish"
  /\ topic' = [topic EXCEPT ![web[s].order.id] =
                 Append(@, Event("ORDER_CREATED", web[s].order, "webhook"))]
  /\ web' = [web EXCEPT ![s].pc = "metrics"]
  /\ UNCHANGED <<store, notifications, deadLetter, msIds, webCalls, retry, retryCalls,
                 retryTrue, accepted, consumer, aux>>

\* Line 69, updateMetrics (calculateMetrics over the recent-orders list,
\* cacheMetrics, publishMetrics: it reads only recent-orders and writes only
\* system-metrics); then lines 71-74 return { orderId, message }.
WebReturn(s) ==
  /\ web[s].pc = "metrics"
  /\ metrics' = calculateMetrics(recent)
  /\ accepted' = accepted \cup {web[s].order.id}
  /\ web' = [web EXCEPT ![s] = [IdleWeb EXCEPT !.resp = web[s].order.id]]
  /\ UNCHANGED <<cache, expiry, recent, bus, msIds, webCalls, retry, retryCalls, retryTrue, consumer, aux>>

\* The clock passes to the next millisecond.
Tick ==
  /\ msIds # {}
  /\ msIds' = {}
  /\ UNCHANGED <<store, bus, web, webCalls, retry, retryCalls, retryTrue, accepted,
                 consumer, aux>>

(***************************************************************************)
(* OrderService.retryFailedOrder                                           *)
(***************************************************************************)
\* Lines 443-461 with a retry on any status but pending.
CanRetryNotPending(order) ==
  /\ order # NoOrder
  /\ order.status # "pending"
  /\ order.retryCount + 1 <= maxRetries

\* Lines 443-461 with the limit tested on the count before its increment.
CanRetryCountBefore(order) ==
  /\ order # NoOrder
  /\ order.status = "failed"
  /\ order.retryCount <= maxRetries

\* Lines 443-461: the order exists, its status is failed and the incremented
\* retryCount does not exceed maxRetries.
CanRetry(order) ==
  /\ order # NoOrder
  /\ order.status = "failed"
  /\ order.retryCount + 1 <= maxRetries

\* Lines 464-468 without the reset of the status.
RetryOrderKeepStatus(order) == [order EXCEPT !.retryCount = order.retryCount + 1]

\* Lines 464-468: { ...order, status: 'pending', retryCount }
RetryOrder(order) ==
  [order EXCEPT !.status = "pending", !.retryCount = order.retryCount + 1]

\* The ids a retry is asked for: a cached one, or one that is not cached (which
\* of the ids that are not cached is immaterial, so the least one is).
RetryIds ==
  LET unused == {i \in OrderIds : cache[i] = NoOrder} IN
  (OrderIds \ unused) \cup (IF unused = {} THEN {} ELSE {Min(unused)})

\* Lines 441-477: getOrder, the two refusals, and the retry order.
RetryStart(s, orderId) ==
  /\ retry[s].pc = "idle"
  /\ orderId \in RetryIds
  /\ \A t \in RetrySlots : t < s => retry[t].pc # "idle"
  /\ retryCalls < MaxRetryCalls * Cardinality({t \in RetrySlots : retry[t].pc # "off"})
  /\ retryCalls' = retryCalls + 1
  /\ LET order == cache[orderId]
     IN IF ~CanRetry(order)
        THEN retry' = [retry EXCEPT ![s] =
                         [IdleRetry EXCEPT !.resp = "false", !.orderId = orderId]]
        ELSE retry' = [retry EXCEPT ![s] =
                         [pc |-> "set", resp |-> "none", orderId |-> orderId,
                          order |-> RetryOrder(order)]]
  /\ UNCHANGED <<store, bus, msIds, web, webCalls, retryTrue, accepted, consumer, aux>>

\* Line 480: cacheOrder(retryOrder).
RetrySet(s) ==
  /\ retry[s].pc = "set"
  /\ cache' = [cache EXCEPT ![retry[s].order.id] = retry[s].order]
  /\ expiry' = [expiry EXCEPT ![retry[s].order.id] = orderTtlSeconds]
  /\ retry' = [retry EXCEPT ![s].pc = "pub"]
  /\ UNCHANGED <<recent, metrics, bus, msIds, web, webCalls, retryCalls, retryTrue,
                 accepted, consumer, aux>>

\* Lines 481-488: publishOrderEvent(ORDER_CREATED), return true.
RetryPublish(s) ==
  /\ retry[s].pc = "pub"
  /\ topic' = [topic EXCEPT ![retry[s].order.id] =
                 Append(@, Event("ORDER_CREATED", retry[s].order, "retry-mechanism"))]
  /\ retryTrue' = [retryTrue EXCEPT ![retry[s].order.id] = @ + 1]
  /\ retry' = [retry EXCEPT ![s] =
                 [IdleRetry EXCEPT !.resp = "true", !.orderId = retry[s].orderId]]
  /\ UNCHANGED <<store, notifications, deadLetter, msIds, web, webCalls, retryCalls,
                 accepted, consumer, aux>>


(***************************************************************************)
(* KafkaService consumer: eachMessage -> handleMessage, one message at a   *)
(* time; messages of one key are taken in publish order, messages of       *)
(* different keys in any order.                                            *)
(***************************************************************************)
clients == <<msIds, web, webCalls, retry, retryCalls, retryTrue, accepted>>

CurId == consumer.event.order.id

\* handleMessage with no handler registered for ORDER_CREATED.
ConsumerTakeUpdatedOnly(key) ==
  /\ consumer.pc = "idle"
  /\ topic[key] # <<>>
  /\ topic' = [topic EXCEPT ![key] = Tail(@)]
  /\ LET event == Head(topic[key]) IN
     consumer' =
       [IdleConsumer EXCEPT
          !.event = IF event.type = "ORDER_UPDATED" THEN event ELSE @,
          !.pc = IF event.type = "ORDER_UPDATED" THEN "upd_cache" ELSE "idle"]
  /\ UNCHANGED <<cache, expiry, recent, metrics, notifications, deadLetter,
                 msIds, web, webCalls, retry, retryCalls, retryTrue, accepted, aux>>

\* Lines 175-206 with a missing handler treated as an error of the message.
DispatchUnhandledThrows(message) ==
  CASE message.type = "#empty" -> "idle"
    [] message.type = "#garbage" -> "dead_letter"
    [] message.type = "#no_order" -> "propagated"
    [] message.type = "ORDER_CREATED" -> "u_get"
    [] message.type = "ORDER_UPDATED" -> "upd_cache"
    [] OTHER -> "dead_letter"

\* handleMessage lines 175-206, where a message goes:
\* no value: return (175-178); a value JSON.parse rejects: the catch (207);
\* a value without an order: line 188 throws and so does line 213 of the
\* catch, the exception leaves handleMessage; else the handler registered for
\* the event type (setupKafkaHandlers: ORDER_CREATED -> handleOrderCreated,
\* which starts updateOrderStatus(processing), ORDER_UPDATED ->
\* handleOrderUpdated), and no handler: a warning, return.
Dispatch(message) ==
  CASE message.type = "#empty" -> "idle"
    [] message.type = "#garbage" -> "dead_letter"
    [] message.type = "#no_order" -> "propagated"
    [] message.type = "ORDER_CREATED" -> "u_get"
    [] message.type = "ORDER_UPDATED" -> "upd_cache"
    [] OTHER -> "idle"

\* eachMessage -> handleMessage with the message of a key published first.
\* An exception that leaves handleMessage leaves eachMessage: the message is
\* not committed and kafkajs runs it again, so the consumer stays with it
\* (pc "propagated").
ConsumerTake(key) ==
  /\ consumer.pc = "idle"
  /\ topic[key] # <<>>
  /\ topic' = [topic EXCEPT ![key] = Tail(@)]
  /\ LET message == Head(topic[key]) IN
     consumer' =
       [IdleConsumer EXCEPT
          !.event = IF Dispatch(message) # "idle" THEN message ELSE @,
          !.target = IF message.type = "ORDER_CREATED" THEN "processing" ELSE "none",
          !.pc = Dispatch(message)]
  /\ UNCHANGED <<store, notifications, deadLetter, clients, aux>>

\* Lines 136-149 writing the event's order when the key is missing.
HandlerGetUpserts ==
  /\ consumer.pc = "u_get"
  /\ consumer' =
       IF cache[CurId] # NoOrder
       THEN [consumer EXCEPT !.pc = "u_set", !.existing = cache[CurId]]
       ELSE [consumer EXCEPT !.pc = "u_set", !.existing = consumer.event.order]
  /\ UNCHANGED <<store, bus, clients, aux>>

\* RedisService.updateOrderStatus line 138: getOrder.  A missing order throws;
\* handleOrderCreated catches once (lines 138-140) and calls failOrder, whose
\* own throw leaves the handler and reaches handleMessage's catch.
HandlerGet ==
  /\ consumer.pc = "u_get"
  /\ consumer' =
       IF cache[CurId] # NoOrder
       THEN [consumer EXCEPT !.pc = "u_set", !.existing = cache[CurId]]
       ELSE IF ~consumer.inCatch
       THEN [consumer EXCEPT !.inCatch = TRUE, !.target = "failed"]
       ELSE [consumer EXCEPT !.pc = "dead_letter"]
  /\ UNCHANGED <<store, bus, clients, aux>>

\* RedisService.updateOrderStatus lines 143-149: cacheOrder of the order read
\* before, with the new status (and processingTime when one is given).
HandlerSet ==
  /\ consumer.pc = "u_set"
  /\ cache' = [cache EXCEPT ![CurId] =
                 WithStatus(consumer.existing, consumer.target, consumer.processingTime)]
  /\ expiry' = [expiry EXCEPT ![CurId] = orderTtlSeconds]
  /\ consumer' = [consumer EXCEPT !.pc = "u_get2"]
  /\ UNCHANGED <<recent, metrics, bus, clients, aux>>

AfterUpdate(c) ==
  IF c.target = "processing" THEN [c EXCEPT !.pc = "simulate"]
  ELSE [c EXCEPT !.pc = "notify"]

\* OrderService.updateOrderStatus lines 191-192: getOrder again; no event is
\* published when the order is gone.
HandlerGet2 ==
  /\ consumer.pc = "u_get2"
  /\ consumer' =
       IF cache[CurId] # NoOrder
       THEN [consumer EXCEPT !.pc = "u_pub", !.existing = cache[CurId]]
       ELSE AfterUpdate(consumer)
  /\ UNCHANGED <<store, bus, clients, aux>>

\* Lines 193-201 with the event put before the messages of its key that wait.
HandlerPublishFirst ==
  /\ consumer.pc = "u_pub"
  /\ topic' = [topic EXCEPT ![CurId] =
                 <<Event("ORDER_UPDATED",
                         WithStatus(consumer.existing, consumer.target,
                                    consumer.processingTime),
                         "order-service")>> \o @]
  /\ consumer' = AfterUpdate(consumer)
  /\ UNCHANGED <<store, notifications, deadLetter, clients, aux>>

\* OrderService.updateOrderStatus lines 193-201: publish ORDER_UPDATED carrying
\* { ...cachedOrder, status, processingTime }.
HandlerPublish ==
  /\ consumer.pc = "u_pub"
  /\ topic' = [topic EXCEPT ![CurId] =
                 Append(@, Event("ORDER_UPDATED",
                                 WithStatus(consumer.existing, consumer.target,
                                            consumer.processingTime),
                                 "order-service"))]
  /\ consumer' = AfterUpdate(consumer)
  /\ UNCHANGED <<store, notifications, deadLetter, clients, aux>>

\* Lines 113-125: simulateOrderProcessing (a timer of at least half a second),
\* then the random outcome; completeOrder / failOrder start updateOrderStatus.
Simulate(isSuccess, processingTime) ==
  /\ consumer.pc = "simulate"
  /\ consumer' = [consumer EXCEPT !.pc = "u_get",
                                  !.target = IF isSuccess THEN "completed" ELSE "failed",
                                  !.processingTime = processingTime]
  /\ msIds' = {}
  /\ UNCHANGED <<store, bus, web, webCalls, retry, retryCalls, retryTrue, accepted, aux>>

\* failOrder lines 234-240 sending the notification of completeOrder.
HandlerNotifyCompleted ==
  /\ consumer.pc = "notify"
  /\ notifications' = Send(notifications,
       [type |-> "ORDER_COMPLETED", orderId |-> CurId, newStatus |-> "none"])
  /\ consumer' = IF consumer.inCatch THEN IdleConsumer
                 ELSE [consumer EXCEPT !.pc = "metrics"]
  /\ UNCHANGED <<store, topic, deadLetter, clients, aux>>

\* completeOrder lines 217-222 / failOrder lines 234-240: publishNotification.
\* In the catch branch the handler ends here; otherwise updateMetrics follows.
HandlerNotify ==
  /\ consumer.pc = "notify"
  /\ notifications' = Send(notifications,
       [type |-> IF consumer.target = "completed" THEN "ORDER_COMPLETED" ELSE "ORDER_FAILED",
        orderId |-> CurId, newStatus |-> "none"])
  /\ consumer' = IF consumer.inCatch THEN IdleConsumer
                 ELSE [consumer EXCEPT !.pc = "metrics"]
  /\ UNCHANGED <<store, topic, deadLetter, clients, aux>>

\* Line 131, updateMetrics; handleOrderCreated returns.
HandlerReturn ==
  /\ consumer.pc = "metrics"
  /\ metrics' = calculateMetrics(recent)
  /\ consumer' = IdleConsumer
  /\ UNCHANGED <<cache, expiry, recent, bus, clients, aux>>

\* handleOrderUpdated line 162: cacheOrder(order) with the event's snapshot.
UpdatedCache ==
  /\ consumer.pc = "upd_cache"
  /\ cache' = [cache EXCEPT ![CurId] = consumer.event.order]
  /\ expiry' = [expiry EXCEPT ![CurId] = orderTtlSeconds]
  /\ consumer' = [consumer EXCEPT !.pc = "upd_pub"]
  /\ UNCHANGED <<recent, metrics, bus, clients, aux>>

\* redis.publish('order-updates', ...): the message reaches the subscriber
\* connection when that is subscribed, and nobody otherwise.
Published(order) ==
  IF subscriber = "subscribed" THEN Append(orderUpdates, order) ELSE orderUpdates

\* handleOrderUpdated lines 162-163 with the publishOrderUpdate left out.
UpdatedPublishSkipped ==
  /\ consumer.pc = "upd_pub"
  /\ consumer' = [consumer EXCEPT !.pc = "upd_notify"]
  /\ UNCHANGED <<store, bus, clients, aux>>

\* handleOrderUpdated line 163: publishOrderUpdate on channel order-updates.
UpdatedPublish ==
  /\ consumer.pc = "upd_pub"
  /\ orderUpdates' = Published(consumer.event.order)
  /\ consumer' = [consumer EXCEPT !.pc = "upd_notify"]
  /\ UNCHANGED <<store, bus, clients, faults, locks, lockers, tokens, rate, limiter,
                 calls, inserted, listeners, invoked, received, subscriber, socketio, kafka>>

\* handleOrderUpdated lines 166-172 with the event put back on the orders topic.
UpdatedNotifyRepublishes ==
  /\ consumer.pc = "upd_notify"
  /\ notifications' = Send(notifications,
       [type |-> "ORDER_STATUS_CHANGED", orderId |-> CurId,
        newStatus |-> consumer.event.order.status])
  /\ topic' = [topic EXCEPT ![CurId] = Append(@, consumer.event)]
  /\ consumer' = IdleConsumer
  /\ UNCHANGED <<store, deadLetter, clients, aux>>

\* handleOrderUpdated lines 166-172: publishNotification(ORDER_STATUS_CHANGED).
UpdatedNotify ==
  /\ consumer.pc = "upd_notify"
  /\ notifications' = Send(notifications,
       [type |-> "ORDER_STATUS_CHANGED", orderId |-> CurId,
        newStatus |-> consumer.event.order.status])
  /\ consumer' = IdleConsumer
  /\ UNCHANGED <<store, topic, deadLetter, clients, aux>>

(***************************************************************************)
(* The catch of handleMessage, and what the environment does to the        *)
(* pipeline: order keys expire, other producers write to the orders topic. *)
(***************************************************************************)
\* originalMessage.retryCount || 0
MessageRetryCount(message) ==
  IF "retryCount" \in DOMAIN message /\ message.retryCount # 0
  THEN message.retryCount ELSE 0

\* publishToDeadLetter lines 112-120: { originalMessage, error, failedAt, retryCount }
DeadLetterRecord(message) ==
  [originalMessage |-> message,
   error |-> IF message.type = "#garbage" THEN "SyntaxError" ELSE "not found in cache",
   retryCount |-> MessageRetryCount(message)]

\* Lines 110-140 with the error of a failed send thrown on.
PublishToDeadLetterRethrows(sent) ==
  /\ consumer.pc = "dead_letter"
  /\ IF sent
     THEN /\ deadLetter' = Send(deadLetter, DeadLetterRecord(consumer.event))
          /\ consumer' = IdleConsumer
          /\ UNCHANGED faults
     ELSE /\ faults' = [faults EXCEPT !.lost = IF @ < MaxFaults THEN @ + 1 ELSE @]
          /\ consumer' = [consumer EXCEPT !.pc = "propagated"]
          /\ UNCHANGED deadLetter
  /\ UNCHANGED <<store, topic, notifications, clients, locks, lockers, tokens, rate, limiter, direct>>

\* handleMessage line 219, publishToDeadLetter: producer.send to the dead-letter
\* topic; a failed send is caught and logged (lines 134-139).  handleMessage
\* returns.
PublishToDeadLetter(sent) ==
  /\ consumer.pc = "dead_letter"
  /\ IF sent
     THEN /\ deadLetter' = Send(deadLetter, DeadLetterRecord(consumer.event))
          /\ UNCHANGED faults
     ELSE /\ faults' = [faults EXCEPT !.lost = IF @ < MaxFaults THEN @ + 1 ELSE @]
          /\ UNCHANGED deadLetter
  /\ consumer' = IdleConsumer
  /\ UNCHANGED <<store, topic, notifications, clients, locks, lockers, tokens, rate, limiter, direct>>

\* setex(key, 3600, ...): the key of an order is gone an hour after its last write.
Expire(orderId) ==
  /\ cache[orderId] # NoOrder
  /\ faults.expired + faults.foreign < MaxFaults
  /\ faults' = [faults EXCEPT !.expired = @ + 1]
  /\ cache' = [cache EXCEPT ![orderId] = NoOrder]
  /\ expiry' = [expiry EXCEPT ![orderId] = 0]
  /\ UNCHANGED <<recent, metrics, bus, clients, consumer, locks, lockers, tokens, rate, limiter, direct>>

\* What another producer of the orders topic can send under a key: no value,
\* a value that is not JSON, JSON without an order, an event of a type nobody
\* registered a handler for, and an ORDER_CREATED event (here with a
\* retryCount of its own next to the order's).
ForeignMessages(key) ==
  LET order == [SeedOrder EXCEPT !.id = key, !.retryCount = 2] IN
  { [type |-> "#empty", order |-> NoOrder, source |-> "external"],
    [type |-> "#garbage", order |-> NoOrder, source |-> "external"],
    [type |-> "#no_order", order |-> NoOrder, source |-> "external"],
    Event("ORDER_COMPLETED", order, "external"),
    [type |-> "ORDER_CREATED", order |-> order, source |-> "external", retryCount |-> 1] }

Foreign(key, message) ==
  /\ key \in RetryIds
  /\ faults.expired + faults.foreign < MaxFaults
  /\ faults' = [faults EXCEPT !.foreign = @ + 1, !.latest = message.type]
  /\ topic' = [topic EXCEPT ![key] = Append(@, message)]
  /\ UNCHANGED <<store, notifications, deadLetter, clients, consumer,
                 locks, lockers, tokens, rate, limiter, direct>>

(***************************************************************************)
(* RedisService.acquireLock / releaseLock.  Each is one redis command, so  *)
(* one step.  A lock value is `lock:${Date.now()}:${Math.random()}`, taken *)
(* as new at every call.  With the transport down the command is not       *)
(* executed and the catch answers null or false.                           *)
(***************************************************************************)
pipeline == <<cache, expiry, recent, metrics, topic, notifications, deadLetter, msIds,
              web, webCalls, retry, retryCalls, retryTrue, accepted, consumer, faults,
              direct>>

\* Lines 320-336 with a plain SET ... EX in place of SET ... EX ... NX.
AcquireLockNoNX(c, lockKey, up) ==
  /\ tokens < MaxLockValues
  /\ tokens' = tokens + 1
  /\ LET lockValue == tokens + 1 IN
     IF up
     THEN /\ locks' = [locks EXCEPT ![lockKey] = lockValue]
          /\ lockers' = [lockers EXCEPT ![c].token[lockKey] = lockValue,
                                        ![c].resp = "token", ![c].key = lockKey]
     ELSE /\ lockers' = [lockers EXCEPT ![c].resp = "null", ![c].key = lockKey]
          /\ UNCHANGED locks
  /\ UNCHANGED <<pipeline, rate, limiter>>

\* Lines 320-336: SET lock:<key> <value> EX ttl NX; the value when redis
\* answered OK, else null.
AcquireLock(c, lockKey, up) ==
  /\ tokens < MaxLockValues
  /\ tokens' = tokens + 1
  /\ LET lockValue == tokens + 1 IN
     IF up /\ locks[lockKey] = NoToken
     THEN /\ locks' = [locks EXCEPT ![lockKey] = lockValue]
          /\ lockers' = [lockers EXCEPT ![c].token[lockKey] = lockValue,
                                        ![c].resp = "token", ![c].key = lockKey]
     ELSE /\ lockers' = [lockers EXCEPT ![c].resp = "null", ![c].key = lockKey]
          /\ UNCHANGED locks
  /\ UNCHANGED <<pipeline, rate, limiter>>

\* Lines 338-354 with an unconditional DEL.
ReleaseLockNoCompare(c, lockKey, up) ==
  /\ lockers[c].token[lockKey] # NoToken
  /\ IF up /\ locks[lockKey] # NoToken
     THEN /\ locks' = [locks EXCEPT ![lockKey] = NoToken]
          /\ lockers' = [lockers EXCEPT ![c].token[lockKey] = NoToken,
                                        ![c].resp = "released", ![c].key = lockKey]
     ELSE /\ lockers' = [lockers EXCEPT ![c].token[lockKey] = IF up THEN NoToken ELSE @,
                                        ![c].resp = "not released", ![c].key = lockKey]
          /\ UNCHANGED locks
  /\ UNCHANGED <<pipeline, tokens, rate, limiter>>

\* Lines 338-354, called with the value acquireLock gave the caller: the
\* script deletes the key when GET equals the value; true when it deleted.
ReleaseLock(c, lockKey, up) ==
  /\ lockers[c].token[lockKey] # NoToken
  /\ IF up /\ locks[lockKey] = lockers[c].token[lockKey]
     THEN /\ locks' = [locks EXCEPT ![lockKey] = NoToken]
          /\ lockers' = [lockers EXCEPT ![c].token[lockKey] = NoToken,
                                        ![c].resp = "released", ![c].key = lockKey]
     ELSE /\ lockers' = [lockers EXCEPT ![c].token[lockKey] = IF up THEN NoToken ELSE @,
                                        ![c].resp = "not released", ![c].key = lockKey]
          /\ UNCHANGED locks
  /\ UNCHANGED <<pipeline, tokens, rate, limiter>>

\* EX ttlSeconds: the time to live of a lock key ran out.
LockExpires(lockKey) ==
  /\ locks[lockKey] # NoToken
  /\ locks' = [locks EXCEPT ![lockKey] = NoToken]
  /\ UNCHANGED <<pipeline, lockers, tokens, rate, limiter>>

LockNext ==
  \/ \E c \in Callers, lockKey \in LockKeys, up \in BOOLEAN : AcquireLock(c, lockKey, up)
  \/ \E c \in Callers, lockKey \in LockKeys, up \in BOOLEAN : ReleaseLock(c, lockKey, up)
  \/ \E lockKey \in LockKeys : LockExpires(lockKey)

\* nothing but the lock and rate-limit commands runs
InitIdle == InitWith(0, 0) /\ InitEmpty

SpecLocks == InitIdle /\ [][LockNext]_vars

(***************************************************************************)
(* RedisService.checkRateLimit: incr, then expire when incr answered 1.    *)
(* Each command is a step; either can fail, which the catch turns into     *)
(* true.  A failed command is taken as not executed.                       *)
(***************************************************************************)
\* Line 313 with current < limit.
RateAllowedBelow(current, limit) == IF current < limit THEN "true" ELSE "false"

\* Line 313: return current <= limit.
RateAllowed(current, limit) == IF current <= limit THEN "true" ELSE "false"

\* Lines 306-311: incr(key); when it answered 1, expire is next, else return.
RateIncr(c, key, limit, windowSeconds, up) ==
  /\ limiter[c].pc = "idle"
  /\ \A d \in Callers : d < c => limiter[d].pc # "idle"
  /\ rate[key].count < limit + MaxOverLimit
  /\ IF up
     THEN LET current == rate[key].count + 1 IN
          /\ rate' = [rate EXCEPT ![key] =
                        [count |-> current,
                         ttl |-> IF rate[key] = NoCounter THEN NoExpiry ELSE rate[key].ttl]]
          /\ limiter' = [limiter EXCEPT ![c] =
                           [pc |-> IF current = 1 THEN "expire" ELSE "idle",
                            key |-> key, limit |-> limit, windowSeconds |-> windowSeconds,
                            current |-> current,
                            resp |-> IF current = 1 THEN "none" ELSE RateAllowed(current, limit),
                            logged |-> FALSE]]
     ELSE /\ limiter' = [limiter EXCEPT ![c] =
                           [IdleLimiter EXCEPT !.key = key, !.resp = "true", !.logged = TRUE]]
          /\ UNCHANGED rate
  /\ UNCHANGED <<pipeline, locks, lockers, tokens>>

\* Lines 309-311 with the expire outside the try.
RateExpireUncaught(c, up) ==
  /\ limiter[c].pc = "expire"
  /\ IF up
     THEN /\ rate' = [rate EXCEPT ![limiter[c].key] =
                        IF @ = NoCounter THEN @ ELSE [@ EXCEPT !.ttl = limiter[c].windowSeconds]]
          /\ limiter' = [limiter EXCEPT ![c].pc = "idle",
                                        ![c].resp = RateAllowed(limiter[c].current, limiter[c].limit)]
     ELSE /\ limiter' = [limiter EXCEPT ![c].pc = "idle", ![c].resp = "error", ![c].logged = TRUE]
          /\ UNCHANGED rate
  /\ UNCHANGED <<pipeline, locks, lockers, tokens>>

\* Lines 309-313: expire(key, windowSeconds), return current <= limit; the
\* catch (314-317) returns true.
RateExpire(c, up) ==
  /\ limiter[c].pc = "expire"
  /\ IF up
     THEN /\ rate' = [rate EXCEPT ![limiter[c].key] =
                        IF @ = NoCounter THEN @ ELSE [@ EXCEPT !.ttl = limiter[c].windowSeconds]]
          /\ limiter' = [limiter EXCEPT ![c].pc = "idle",
                                        ![c].resp = RateAllowed(limiter[c].current, limiter[c].limit)]
     ELSE /\ limiter' = [limiter EXCEPT ![c].pc = "idle", ![c].resp = "true", ![c].logged = TRUE]
          /\ UNCHANGED rate
  /\ UNCHANGED <<pipeline, locks, lockers, tokens>>

\* A second passes: the keys with an expiry are a second nearer to it, and
\* gone when it is reached.
Second ==
  /\ \E key \in RateKeys : rate[key].ttl > 0
  /\ rate' = [key \in RateKeys |->
                IF rate[key].ttl > 1 THEN [rate[key] EXCEPT !.ttl = @ - 1]
                ELSE IF rate[key].ttl = 1 THEN NoCounter
                ELSE rate[key]]
  /\ UNCHANGED <<pipeline, locks, lockers, tokens, limiter>>

\* checkWebhookRateLimit(clientId): checkRateLimit(`webhook:${clientId}`, 100, 60)
RateNext ==
  \/ \E c \in Callers, key \in RateKeys, up \in BOOLEAN :
       RateIncr(c, key, webhookLimit, webhookWindowSeconds, up)
  \/ \E c \in Callers, up \in BOOLEAN : RateExpire(c, up)
  \/ Second

SpecRate == InitIdle /\ [][RateNext]_vars

(***************************************************************************)
(* Specification.                                                          *)
(***************************************************************************)
WebNext ==
  \E s \in WebSlots :
    \/ \E payload \in Payloads : WebStart(s, payload)
    \/ WebRecent(s)
    \/ WebPublish(s)
    \/ WebReturn(s)

RetryNext ==
  \E s \in RetrySlots :
    \/ \E orderId \in OrderIds : RetryStart(s, orderId)
    \/ RetrySet(s)
    \/ RetryPublish(s)

ConsumerNext ==
  \/ \E key \in OrderIds : ConsumerTake(key)
  \/ HandlerGet
  \/ HandlerSet
  \/ HandlerGet2
  \/ HandlerPublish
  \/ \E isSuccess \in BOOLEAN, processingTime \in ProcTimes : Simulate(isSuccess, processingTime)
  \/ HandlerNotify
  \/ HandlerReturn
  \/ UpdatedCache
  \/ UpdatedPublish
  \/ UpdatedNotify

Next == WebNext \/ RetryNext \/ ConsumerNext \/ Tick

Spec == Init /\ [][Next]_vars

SpecConcurrent == InitConcurrent /\ [][Next]_vars

FaultNext ==
  \/ \E sent \in BOOLEAN : PublishToDeadLetter(sent)
  \/ \E orderId \in OrderIds : Expire(orderId)
  \/ \E key \in OrderIds : \E message \in ForeignMessages(key) : Foreign(key, message)

\* the consumer and one retrying client, with expiring keys and other producers
InitFaulty == InitWith(0, 1)

FaultyNext == RetryNext \/ ConsumerNext \/ FaultNext

SpecFaulty == InitFaulty /\ [][FaultyNext]_vars

BurstNext == WebNext \/ ConsumerNext \/ Tick

SpecBurst == InitBurst /\ [][BurstNext]_vars

\* The continuations of calls already started (every step but the start of
\* a new call).
WebContinue == \E s \in WebSlots : WebRecent(s) \/ WebPublish(s) \/ WebReturn(s)

RetryContinue == \E s \in RetrySlots : RetrySet(s) \/ RetryPublish(s)

\* With the transports up every awaited command completes and eachMessage is
\* invoked for every message fetched: the server does not stop while a started
\* call or the consumer has a step to take.
FairSpec ==
  Spec /\ WF_vars(ConsumerNext \/ WebContinue \/ RetryContinue)


(***************************************************************************)
(* Claims.                                                                 *)
(***************************************************************************)
StatusEdges ==
  { <<"pending", "processing">>, <<"processing", "completed">>,
    <<"processing", "failed">>, <<"failed", "pending">> }

\* C1: the cached status of an order changes only along pending->processing,
\* processing->completed, processing->failed and failed->pending; a cached
\* completed is never replaced by another status.
C1_StatusFollowsEdges ==
  [][\A i \in OrderIds :
       (cache[i] # NoOrder /\ cache'[i].status # cache[i].status)
         => <<cache[i].status, cache'[i].status>> \in StatusEdges]_vars

\* C2: retryFailedOrder returns true at most 3 times for one order.
C2_AtMostThreeRetries == \A i \in OrderIds : retryTrue[i] <= 3

\* C3: every cached order and every order snapshot carried by a published
\* event has retryCount <= 3.
C3_RetryCountAtMostThree ==
  \A i \in OrderIds :
    /\ cache[i].retryCount <= 3
    /\ \A k \in 1..Len(topic[i]) : topic[i][k].order.retryCount <= 3
    /\ consumer.event.order.retryCount <= 3

C3_Witness ==
  \E i \in OrderIds :
    /\ cache[i].retryCount = 3
    /\ \E k \in 1..Len(topic[i]) :
         topic[i][k].source = "retry-mechanism" /\ topic[i][k].order.retryCount = 3

Refused(s) == retry'[s].pc = "idle" /\ retry'[s].resp = "false"

\* C4: retryFailedOrder on a cached order with status failed and retryCount 3
\* returns false, leaves cache, recent-orders and metrics unchanged and
\* publishes no event and no notification.
C4_ExhaustedRetryRefused ==
  [][\A s \in RetrySlots, i \in OrderIds :
       (RetryStart(s, i) /\ cache[i].status = "failed" /\ cache[i].retryCount = 3)
         => (Refused(s) /\ UNCHANGED <<cache, expiry, recent, metrics, topic, notifications,
                                       deadLetter>>)]_vars

C4_Witness ==
  \E s \in RetrySlots, i \in OrderIds :
    /\ retry[s].resp = "false" /\ retry[s].orderId = i
    /\ cache[i].status = "failed" /\ cache[i].retryCount = 3

\* C5: retryFailedOrder with an id that is not cached, or with an order whose
\* status is pending, processing or completed, returns false, leaves the
\* store unchanged and publishes nothing.
C5_NotFailedRefused ==
  [][\A s \in RetrySlots, i \in OrderIds :
       (RetryStart(s, i)
        /\ (cache[i] = NoOrder \/ cache[i].status \in {"pending", "processing", "completed"}))
         => (Refused(s) /\ UNCHANGED <<cache, expiry, recent, metrics, topic, notifications,
                                       deadLetter>>)]_vars

C5_Witness ==
  \E s \in RetrySlots, i \in OrderIds :
    /\ retry[s].resp = "false" /\ retry[s].orderId = i
    /\ cache[i].status \in {"pending", "processing", "completed"}
    /\ \A t \in RetrySlots : retry[t].resp # "true"
    /\ retryCalls = 1

\* C6: retryFailedOrder on a cached order with status failed and retryCount
\* n < 3 returns true, writes the order with status pending and retryCount
\* n+1 and every other field as read, and publishes exactly one CREATED event
\* keyed by the order id whose snapshot is that order.
C6_RetryRepublishes ==
  [][\A s \in RetrySlots :
       /\ \A i \in OrderIds :
            (RetryStart(s, i) /\ cache[i].status = "failed" /\ cache[i].retryCount < 3)
              => /\ retry'[s].pc = "set"
                 /\ retry'[s].order = [cache[i] EXCEPT !.status = "pending",
                                                       !.retryCount = cache[i].retryCount + 1]
                 /\ UNCHANGED <<cache, expiry, recent, metrics, topic, notifications, deadLetter>>
       /\ (retry[s].pc = "set" /\ retry'[s] # retry[s])
            => /\ retry'[s].pc = "pub" /\ retry'[s].order = retry[s].order
               /\ cache' = [cache EXCEPT ![retry[s].order.id] = retry[s].order]
               /\ UNCHANGED <<recent, metrics, topic, notifications, deadLetter>>
       /\ (retry[s].pc = "pub" /\ retry'[s] # retry[s])
            => /\ retry'[s].pc = "idle" /\ retry'[s].resp = "true"
               /\ topic' = [topic EXCEPT ![retry[s].order.id] =
                              Append(@, [type |-> "ORDER_CREATED", order |-> retry[s].order,
                                         source |-> "retry-mechanism"])]
               /\ retry[s].order.status = "pending"
               /\ UNCHANGED <<cache, expiry, recent, metrics, notifications, deadLetter>>]_vars

C6_Witness ==
  \E s \in RetrySlots, i \in OrderIds :
    /\ retry[s].resp = "true" /\ retry[s].orderId = i
    /\ cache[i].status = "pending" /\ cache[i].retryCount = 3
    /\ topic[i] # <<>>
    /\ topic[i][Len(topic[i])] = [type |-> "ORDER_CREATED", order |-> cache[i],
                                  source |-> "retry-mechanism"]


\* C7: every order accepted by processWebhook (an orderId was returned)
\* eventually has the cached status completed or failed, when the consumer
\* keeps running.  An accepted order stays accepted, so "accepted leads to
\* resolved" is: at any time, a time follows at which the order is not
\* accepted or is resolved.
C7_AcceptedOrderIsResolved ==
  \A i \in OrderIds : []<>(i \in accepted => cache[i].status \in {"completed", "failed"})

C7_Witness ==
  \E s \in WebSlots :
    /\ web[s].resp \in accepted
    /\ cache[web[s].resp].status = "completed"
    /\ topic[web[s].resp] = <<>> /\ consumer.pc = "idle"

\* The return of processWebhook with { orderId, message }.
Returns(s) == web[s].pc = "metrics" /\ web'[s].pc = "idle" /\ web'[s].resp = web[s].order.id

\* C8 as stated: at the moment processWebhook returns, the order is cached
\* under its id with status pending and retryCount 0 and is the first
\* element of the recent-orders list.
C8_PendingAndFirstAtReturn ==
  [][\A s \in WebSlots :
       Returns(s)
         => /\ cache'[web[s].order.id].status = "pending"
            /\ cache'[web[s].order.id].retryCount = 0
            /\ recent' # <<>> /\ Head(recent').id = web[s].order.id]_vars

\* C8 amended: an accepting processWebhook call caches the order under its id
\* with status pending and retryCount 0 whatever status the payload supplied,
\* then puts it first in the recent-orders list, then publishes exactly one
\* CREATED event keyed by the order id, each at the step that does it, and
\* returns that id; at the return the order is cached and listed.
C8_WritesPendingThenPublishesOnce ==
  [][\A s \in WebSlots :
       /\ (web[s].pc = "idle" /\ web'[s].pc # "idle")
            => /\ web'[s].pc = "recent"
               /\ web'[s].order.status = "pending" /\ web'[s].order.retryCount = 0
               /\ cache' = [cache EXCEPT ![web'[s].order.id] = web'[s].order]
               /\ UNCHANGED <<recent, topic>>
       /\ (web[s].pc = "recent" /\ web'[s] # web[s])
            => /\ web'[s] = [web[s] EXCEPT !.pc = "publish"]
               /\ Head(recent') = web[s].order /\ Tail(recent') = recent
               /\ UNCHANGED <<cache, expiry, topic>>
       /\ (web[s].pc = "publish" /\ web'[s] # web[s])
            => /\ web'[s] = [web[s] EXCEPT !.pc = "metrics"]
               /\ topic' = [topic EXCEPT ![web[s].order.id] =
                              Append(@, [type |-> "ORDER_CREATED", order |-> web[s].order,
                                         source |-> "webhook"])]
               /\ UNCHANGED <<cache, expiry, recent>>
       /\ (web[s].pc = "metrics" /\ web'[s] # web[s])
            => /\ Returns(s)
               /\ cache'[web[s].order.id] # NoOrder
               /\ \E k \in 1..Len(recent') : recent'[k] = web[s].order
               /\ UNCHANGED <<cache, expiry, recent, topic>>]_vars

C8_Witness ==
  \E s \in WebSlots :
    /\ web[s].resp > 0
    /\ cache[web[s].resp].status = "processing"
    /\ Head(recent).id = web[s].resp
    /\ consumer.pc = "simulate"

\* The payloads C9 lists as rejected.
C9_ListedAsRejected(payload) ==
  \/ payload.customerId = ""
  \/ payload.items = <<>>
  \/ \E k \in 1..Len(payload.items) :
       payload.items[k].quantity <= 0 \/ payload.items[k].price < 0
  \/ RoundCents(SumItems(payload.items)) <= 0

Rejects(s) ==
  /\ web'[s].pc = "idle" /\ web'[s].resp = -1
  /\ UNCHANGED <<cache, expiry, recent, metrics, topic, notifications, deadLetter>>

\* C9 as stated: processWebhook fails, writing and publishing nothing, exactly
\* when customerId is empty, items is empty, some item has quantity <= 0 or
\* price < 0, or the computed totalAmount is <= 0.
C9_RejectsExactlyListed ==
  [][\A s \in WebSlots, payload \in Payloads :
       WebStart(s, payload) => (Rejects(s) <=> C9_ListedAsRejected(payload))]_vars

\* C9 amended: processWebhook fails, writing and publishing nothing, exactly
\* when customerId is empty, items is empty, some item has an empty name,
\* quantity <= 0 or price < 0, or the computed totalAmount is <= 0.
C9_RejectsListedOrUnnamed ==
  [][\A s \in WebSlots, payload \in Payloads :
       WebStart(s, payload)
         => (Rejects(s) <=> (\/ C9_ListedAsRejected(payload)
                             \/ \E k \in 1..Len(payload.items) :
                                  payload.items[k].name = ""))]_vars

C9_Witness ==
  \E s \in WebSlots :
    /\ web[s].resp = -1
    /\ webCalls = 1
    /\ \A i \in OrderIds : cache[i] = NoOrder
    /\ recent = <<>> /\ metrics = NoMetrics

\* The amount in thousandths that is a whole number of hundredths nearest to
\* total, the upper one of two equally near.
NearestCents(total) ==
  CHOOSE c \in (total - 10)..(total + 10) : c % 10 = 0 /\ c - 5 <= total /\ total < c + 5

C11_OrderIdsAreDistinct ==
  [][\A s \in WebSlots :
       (web[s].pc = "idle" /\ web'[s].pc = "recent")
         => /\ web'[s].order.id \notin accepted
            /\ \A t \in WebSlots : web[t].pc # "idle" => web[t].order.id # web'[s].order.id
            /\ cache[web'[s].order.id] = NoOrder]_vars

\* C12: every event of the orders topic waits under the key that is its
\* order's id; the messages of a key change only by a publish, which puts one
\* event of that order behind those that wait, or by the consumer taking the
\* one published first, which it does only when no handler is running; which
\* key the consumer takes from is not determined.
C12_SameKeyInPublishOrder ==
  /\ [](\A k \in OrderIds : \A n \in 1..Len(topic[k]) : topic[k][n].order.id = k)
  /\ [][\A k \in OrderIds :
          \/ topic'[k] = topic[k]
          \/ /\ Len(topic'[k]) = Len(topic[k]) + 1
             /\ SubSeq(topic'[k], 1, Len(topic[k])) = topic[k]
             /\ topic'[k][Len(topic'[k])].order.id = k
             /\ consumer' = consumer \/ consumer.pc = "u_pub"
          \/ /\ topic[k] # <<>> /\ topic'[k] = Tail(topic[k])
             /\ consumer.pc = "idle"
             /\ consumer'.pc # "idle" => consumer'.event = Head(topic[k])]_vars

C12_Witness ==
  /\ consumer.pc = "upd_cache"
  /\ consumer.event.order.status = "processing"
  /\ topic[CurId] # <<>>
  /\ Head(topic[CurId]).type = "ORDER_UPDATED"
  /\ Head(topic[CurId]).order.status \in {"completed", "failed"}

\* The handler threw: updateOrderStatus did not find the order, in the try of
\* handleOrderCreated and again in failOrder of its catch.
HandlerThrows ==
  consumer.pc = "u_get" /\ consumer.inCatch /\ cache[CurId] = NoOrder /\ consumer' # consumer

\* C13: when a handler throws or a message cannot be parsed, handleMessage
\* catches it; the catch sends one record with the original message, the
\* error and a retry count to the dead-letter topic, or nothing when that send
\* fails, and returns either way with the waiting messages untouched, so the
\* consumer goes on with them; the exception never leaves handleMessage.
C13_FailedMessageIsDeadLettered ==
  [][/\ HandlerThrows => consumer'.pc = "dead_letter"
     /\ \A k \in OrderIds :
          (consumer.pc = "idle" /\ topic[k] # <<>> /\ topic'[k] = Tail(topic[k])
           /\ Head(topic[k]).type = "#garbage")
            => consumer'.pc = "dead_letter" /\ consumer'.event = Head(topic[k])
     /\ (consumer.pc = "dead_letter" /\ consumer' # consumer)
          => /\ consumer' = IdleConsumer
             /\ UNCHANGED <<cache, expiry, recent, metrics, topic, notifications>>
             /\ \/ deadLetter' = deadLetter
                \/ /\ deadLetter'.parity = 1 - deadLetter.parity
                   /\ deadLetter'.last.originalMessage = consumer.event
                   /\ DOMAIN deadLetter'.last = {"originalMessage", "error", "retryCount"}]_vars

C13_Witness ==
  /\ faults.lost = 1 /\ faults.latest = "#garbage"
  /\ deadLetter = EmptyTopic
  /\ consumer.pc = "u_set" /\ consumer.event.source = "retry-mechanism"

\* C14: the dead-letter record of a failed event carries the retryCount of
\* the event's order snapshot.
C14_DeadLetterCarriesRetryCount ==
  (deadLetter.last # NoRecord /\ deadLetter.last.originalMessage.order # NoOrder)
    => deadLetter.last.retryCount = deadLetter.last.originalMessage.order.retryCount

\* C15: a message whose event type has no registered handler is dropped: the
\* consumer takes it and is idle again at once, the store, the notifications
\* and the dead-letter topic do not change and the other messages still wait.
C15_UnhandledTypeIsDropped ==
  [][\A k \in OrderIds :
       (consumer.pc = "idle" /\ topic[k] # <<>> /\ topic'[k] = Tail(topic[k])
        /\ Head(topic[k]).type \notin
             {"ORDER_CREATED", "ORDER_UPDATED", "#empty", "#garbage", "#no_order"})
         => /\ consumer' = IdleConsumer
            /\ topic' = [topic EXCEPT ![k] = Tail(@)]
            /\ UNCHANGED <<cache, expiry, recent, metrics, notifications, deadLetter>>]_vars

C15_Witness ==
  /\ faults.foreign = 1 /\ faults.latest = "ORDER_COMPLETED"
  /\ \A k \in OrderIds : topic[k] = <<>>
  /\ consumer.pc = "u_set" /\ consumer.event.source = "retry-mechanism"
  /\ deadLetter = EmptyTopic /\ faults.lost = 0

\* C16: while a lock key holds a value, acquireLock on it answers null and
\* leaves it; the value goes only by releaseLock with that value or by the
\* time to live; no two callers hold the value a lock key stores.
C16_LockIsExclusive ==
  /\ [](\A k \in LockKeys : \A c, d \in Callers :
          (locks[k] # NoToken /\ lockers[c].token[k] = locks[k]
           /\ lockers[d].token[k] = locks[k]) => c = d)
  /\ [][\A k \in LockKeys :
          /\ \A c \in Callers, up \in BOOLEAN :
               (AcquireLock(c, k, up) /\ locks[k] # NoToken)
                 => lockers'[c].resp = "null" /\ locks' = locks
          /\ (locks[k] # NoToken /\ locks'[k] # locks[k])
               => /\ locks'[k] = NoToken
                  /\ \/ lockers' = lockers
                     \/ \E c \in Callers :
                          lockers[c].token[k] = locks[k] /\ lockers'[c].resp = "released"]_vars

C16_Witness ==
  \E k \in LockKeys, c, d \in Callers :
    /\ c # d
    /\ locks[k] # NoToken /\ lockers[c].token[k] = locks[k]
    /\ lockers[d].resp = "null" /\ lockers[d].key = k
    /\ tokens = 2

\* C17: releaseLock deletes the lock exactly when it answers true, which it
\* does only when the stored value is the caller's; with another value stored
\* (the caller's lock ran out and another caller acquired it) it answers false
\* and the lock stays.
C17_ReleaseNeedsOwnValue ==
  [][\A k \in LockKeys, c \in Callers, up \in BOOLEAN :
       ReleaseLock(c, k, up)
         => /\ (lockers'[c].resp = "released")
                 <=> (locks[k] # NoToken /\ locks'[k] = NoToken)
            /\ locks' # locks => locks[k] = lockers[c].token[k]
            /\ locks[k] # lockers[c].token[k]
                 => lockers'[c].resp = "not released" /\ locks' = locks
            /\ (up /\ locks[k] = lockers[c].token[k]) => lockers'[c].resp = "released"]_vars

C17_Witness ==
  \E k \in LockKeys, c, d \in Callers :
    /\ c # d
    /\ lockers[c].resp = "not released" /\ lockers[c].key = k
    /\ lockers[c].token[k] = NoToken
    /\ locks[k] # NoToken /\ lockers[d].token[k] = locks[k]

\* C18: with the transport up a call adds one to the counter of its key and
\* returns true exactly when the counter it read is at most the limit (100
\* for the webhook limiter); the call that reads 1 sets the expiry to the
\* window (60 s), no other call touches the expiry, and the counter starts
\* again only when the expiry is reached.
C18_CountsWithinWindow ==
  [][\A key \in RateKeys :
       /\ \A c \in Callers :
            RateIncr(c, key, webhookLimit, webhookWindowSeconds, TRUE)
              => /\ rate'[key].count = rate[key].count + 1
                 /\ limiter'[c].current = rate'[key].count
                 /\ rate[key] # NoCounter => rate'[key].ttl = rate[key].ttl
                 /\ limiter'[c].current # 1
                      => /\ limiter'[c].pc = "idle"
                         /\ (limiter'[c].resp = "true") <=> (limiter'[c].current <= 100)
                         /\ limiter'[c].resp \in {"true", "false"}
       /\ \A c \in Callers :
            (RateExpire(c, TRUE) /\ limiter[c].key = key)
              => /\ rate[key] # NoCounter => rate'[key] = [rate[key] EXCEPT !.ttl = 60]
                 /\ limiter'[c].resp = "true"
       /\ rate'[key].count < rate[key].count
            => rate[key].ttl = 1 /\ rate'[key] = NoCounter]_vars

C18_Witness ==
  \E key \in RateKeys, c \in Callers :
    /\ limiter[c].pc = "idle" /\ limiter[c].resp = "false" /\ ~limiter[c].logged
    /\ limiter[c].current = 101 /\ rate[key].count = 101
    /\ rate[key].ttl = 30

\* C19: a call whose incr or expire command fails returns true and throws
\* nothing.
C19_FailsOpen ==
  [][\A c \in Callers :
       /\ \A key \in RateKeys :
            RateIncr(c, key, webhookLimit, webhookWindowSeconds, FALSE)
              => limiter'[c].pc = "idle" /\ limiter'[c].resp = "true"
       /\ RateExpire(c, FALSE) => limiter'[c].pc = "idle" /\ limiter'[c].resp = "true"]_vars

C19_Witness ==
  \E key \in RateKeys, c \in Callers :
    /\ limiter[c].pc = "idle" /\ limiter[c].resp = "true" /\ limiter[c].logged
    /\ limiter[c].key = key /\ rate[key].count = 101

\* C20: every rate counter key that exists has an expiry, once the call that
\* created it is over.
C20_CounterKeyHasExpiry ==
  \A key \in RateKeys :
    (rate[key] # NoCounter
     /\ \A c \in Callers : ~(limiter[c].pc = "expire" /\ limiter[c].key = key))
      => rate[key].ttl # NoExpiry

(***************************************************************************)
(* RedisService called directly: the recent-orders list.                   *)
(* addToRecentOrders issues LPUSH and LTRIM 0 99 in the same tick on one   *)
(* connection; the server runs the two one after the other, or, with the   *)
(* transport down, neither, and the method throws.  getRecentOrders is one *)
(* LRANGE; its catch answers the empty list.  The n-th order added is told *)
(* from the others by its id.                                              *)
(***************************************************************************)
MaxInserts == 102
RecentLimits == {20, 100, 150}

\* what these methods leave alone, the order keys included
beside == <<cache, expiry, metrics, bus, clients, consumer,
            faults, locks, lockers, tokens, rate, limiter, gateway, kafka>>

NthOrder(n) == [SeedOrder EXCEPT !.id = n]

\* Lines 158-174 with LTRIM 0 100.
AddToRecentOrdersTrim101(c, order, up) ==
  /\ calls[c].pc = "idle"
  /\ inserted < MaxInserts
  /\ IF up
     THEN /\ recent' = SubSeqTo(<<order>> \o recent, RecentCapacity + 1)
          /\ inserted' = inserted + 1
          /\ calls' = [d \in Callers |->
                         IF d = c
                         THEN [IdleCall EXCEPT !.op = "addToRecentOrders",
                                               !.orderId = order.id, !.resp = "ok"]
                         ELSE [calls[d] EXCEPT !.unwritten =
                                 IF calls[d].op = "getRecentOrders" THEN FALSE ELSE @]]
     ELSE /\ calls' = [calls EXCEPT ![c] =
                         [IdleCall EXCEPT !.op = "addToRecentOrders",
                                          !.orderId = order.id, !.resp = "error"]]
          /\ UNCHANGED <<recent, inserted>>
  /\ UNCHANGED <<beside, listeners, invoked, received>>

\* Lines 158-174: lpush(key, orderData) and ltrim(key, 0, 99); throws when
\* the commands fail.
AddToRecentOrders(c, order, up) ==
  /\ calls[c].pc = "idle"
  /\ inserted < MaxInserts
  /\ IF up
     THEN /\ recent' = PushRecent(recent, order)
          /\ inserted' = inserted + 1
          /\ calls' = [d \in Callers |->
                         IF d = c
                         THEN [IdleCall EXCEPT !.op = "addToRecentOrders",
                                               !.orderId = order.id, !.resp = "ok"]
                         ELSE [calls[d] EXCEPT !.unwritten =
                                 IF calls[d].op = "getRecentOrders" THEN FALSE ELSE @]]
     ELSE /\ calls' = [calls EXCEPT ![c] =
                         [IdleCall EXCEPT !.op = "addToRecentOrders",
                                          !.orderId = order.id, !.resp = "error"]]
          /\ UNCHANGED <<recent, inserted>>
  /\ UNCHANGED <<beside, listeners, invoked, received>>

\* Lines 176-196: lrange(key, 0, min(limit, 100) - 1), every entry parsed;
\* the empty list when the command fails.
GetRecentOrders(c, limit, up) ==
  /\ calls[c].pc = "idle"
  /\ calls' = [calls EXCEPT ![c] =
                 [IdleCall EXCEPT !.op = "getRecentOrders", !.limit = limit,
                                  !.list = IF up THEN getRecentOrders(recent, limit) ELSE <<>>,
                                  !.resp = IF up THEN "ok" ELSE "logged",
                                  !.unwritten = up]]
  /\ UNCHANGED <<beside, recent, inserted, listeners, invoked, received>>

RecentNext ==
  \/ \E up \in BOOLEAN : AddToRecentOrders(1, NthOrder(inserted + 1), up)
  \/ \E limit \in RecentLimits, up \in BOOLEAN : GetRecentOrders(1, limit, up)

SpecRecent == InitIdle /\ [][RecentNext]_vars

\* C21: the list never holds more than 100 entries: it holds the min(N, 100)
\* orders added last, the latest first, and getRecentOrders(100), read from
\* the store with no order added since, returns exactly these (after more
\* than 100 additions the last 100, the oldest evicted).
C21_RecentHoldsLast100 ==
  LET n == IF inserted < 100 THEN inserted ELSE 100 IN
  /\ Len(recent) <= 100
  /\ Len(recent) = n
  /\ \A j \in 1..n : recent[j] = NthOrder(inserted - j + 1)
  /\ \A c \in Callers :
       (calls[c].op = "getRecentOrders" /\ calls[c].limit = 100 /\ calls[c].unwritten)
         => /\ Len(calls[c].list) = n
            /\ \A j \in 1..n : calls[c].list[j] = NthOrder(inserted - j + 1)

C21_Witness ==
  /\ inserted = 102
  /\ calls[1].op = "getRecentOrders" /\ calls[1].limit = 100 /\ calls[1].unwritten
  /\ Len(calls[1].list) = 100
  /\ calls[1].list[1].id = 102 /\ calls[1].list[100].id = 3

(***************************************************************************)
(* RedisService called directly: the order keys.                           *)
(* cacheOrder is one SETEX and getOrder one GET; updateOrderStatus awaits  *)
(* getOrder and then cacheOrder, so other commands can run between its     *)
(* read and its write.  A command that fails was not executed.  The value  *)
(* of a key is the order: cachedAt, which cacheOrder adds to the JSON text *)
(* and getOrder deletes from the parsed object, is left out.  Caller 1     *)
(* reads and updates, caller 2 is another writer of the same keys.         *)
(***************************************************************************)
StoreOrders == {NthOrder(1), [NthOrder(1) EXCEPT !.status = "failed", !.retryCount = 1],
                NthOrder(2)}
\* the ids the callers ask for
StoreIds == {order.id : order \in StoreOrders}
UpdateStatuses == {"processing", "completed"}
\* 0: the call gives no processingTime
UpdateTimes == {0, 7}
ElapsedSeconds == {1800}

\* the calls whose result was read from key order:<id> stop being current
Overwritten(id, c) ==
  [d \in Callers |->
     IF d # c /\ calls[d].op = "getOrder" /\ calls[d].orderId = id
     THEN [calls[d] EXCEPT !.unwritten = FALSE]
     ELSE calls[d]]

\* what the order methods leave alone
besideOrders == <<recent, metrics, bus, clients, consumer, faults, locks, lockers,
                  tokens, rate, limiter, inserted, listeners, invoked, received, gateway,
                  kafka>>

\* Lines 100-115: setex(order:<id>, 3600, JSON of the order); throws when
\* the command fails.
CacheOrder(c, order, up) ==
  /\ calls[c].pc = "idle"
  /\ IF up
     THEN /\ cache' = [cache EXCEPT ![order.id] = order]
          /\ expiry' = [expiry EXCEPT ![order.id] = orderTtlSeconds]
          /\ calls' = [Overwritten(order.id, c) EXCEPT ![c] =
                         [IdleCall EXCEPT !.op = "cacheOrder", !.orderId = order.id,
                                          !.resp = "ok"]]
     ELSE /\ calls' = [calls EXCEPT ![c] =
                         [IdleCall EXCEPT !.op = "cacheOrder", !.orderId = order.id,
                                          !.resp = "error"]]
          /\ UNCHANGED <<cache, expiry>>
  /\ UNCHANGED besideOrders

\* Lines 117-134 with GETEX order:<id> EX 3600 in place of GET.
GetOrderTouches(c, orderId, up) ==
  /\ calls[c].pc = "idle"
  /\ calls' = [calls EXCEPT ![c] =
                 [IdleCall EXCEPT !.op = "getOrder", !.orderId = orderId,
                                  !.order = IF up THEN cache[orderId] ELSE NoOrder,
                                  !.resp = IF up THEN "ok" ELSE "logged",
                                  !.unwritten = up,
                                  !.repeated = up /\ calls[c].op = "getOrder"
                                               /\ calls[c].orderId = orderId
                                               /\ calls[c].unwritten]]
  /\ expiry' = [expiry EXCEPT ![orderId] =
                  IF up /\ cache[orderId] # NoOrder THEN orderTtlSeconds ELSE @]
  /\ UNCHANGED <<cache, besideOrders>>

\* Lines 117-134: get(order:<id>); null when the key is absent, the parsed
\* order otherwise, and null from the catch when the command fails.
GetOrder(c, orderId, up) ==
  /\ calls[c].pc = "idle"
  /\ calls' = [calls EXCEPT ![c] =
                 [IdleCall EXCEPT !.op = "getOrder", !.orderId = orderId,
                                  !.order = IF up THEN cache[orderId] ELSE NoOrder,
                                  !.resp = IF up THEN "ok" ELSE "logged",
                                  !.unwritten = up,
                                  !.repeated = up /\ calls[c].op = "getOrder"
                                               /\ calls[c].orderId = orderId
                                               /\ calls[c].unwritten]]
  /\ UNCHANGED <<cache, expiry, besideOrders>>

\* Lines 136-142 writing the new status also when getOrder answered null.
UpdateReadUpserts(c, orderId, status, processingTime, up) ==
  /\ calls[c].pc = "idle"
  /\ calls' = [calls EXCEPT ![c] =
                 [IdleCall EXCEPT !.pc = "u_set", !.op = "updateOrderStatus",
                                  !.orderId = orderId, !.status = status,
                                  !.processingTime = processingTime,
                                  !.existing = IF up /\ cache[orderId] # NoOrder
                                               THEN cache[orderId] ELSE NthOrder(orderId)]]
  /\ UNCHANGED <<cache, expiry, besideOrders>>

\* Lines 136-142: existingOrder = await getOrder(orderId); the error
\* `Order ${orderId} not found in cache` when it is null.
UpdateRead(c, orderId, status, processingTime, up) ==
  /\ calls[c].pc = "idle"
  /\ LET existingOrder == IF up THEN cache[orderId] ELSE NoOrder IN
     calls' = [calls EXCEPT ![c] =
                 IF existingOrder = NoOrder
                 THEN [IdleCall EXCEPT !.op = "updateOrderStatus", !.orderId = orderId,
                                       !.resp = "not found"]
                 ELSE [IdleCall EXCEPT !.pc = "u_set", !.op = "updateOrderStatus",
                                       !.orderId = orderId, !.status = status,
                                       !.processingTime = processingTime,
                                       !.existing = existingOrder]]
  /\ UNCHANGED <<cache, expiry, besideOrders>>

\* Lines 143-149 with SET ... KEEPTTL in place of SETEX.
UpdateWriteKeepsTtl(c, up) ==
  /\ calls[c].pc = "u_set"
  /\ LET orderId == calls[c].orderId IN
     IF up
     THEN /\ cache' = [cache EXCEPT ![orderId] =
                         WithStatus(calls[c].existing, calls[c].status, calls[c].processingTime)]
          /\ expiry' = [expiry EXCEPT ![orderId] = IF @ = 0 THEN NoExpiry ELSE @]
          /\ calls' = [Overwritten(orderId, c) EXCEPT ![c] =
                         [IdleCall EXCEPT !.op = "updateOrderStatus", !.orderId = orderId,
                                          !.resp = "ok"]]
     ELSE /\ calls' = [calls EXCEPT ![c] =
                         [IdleCall EXCEPT !.op = "updateOrderStatus", !.orderId = orderId,
                                          !.resp = "error"]]
          /\ UNCHANGED <<cache, expiry>>
  /\ UNCHANGED besideOrders

\* Lines 143-149: cacheOrder({...existingOrder, status, processingTime when
\* it is truthy}); the error of cacheOrder is thrown on.
UpdateWrite(c, up) ==
  /\ calls[c].pc = "u_set"
  /\ LET orderId == calls[c].orderId IN
     IF up
     THEN /\ cache' = [cache EXCEPT ![orderId] =
                         WithStatus(calls[c].existing, calls[c].status, calls[c].processingTime)]
          /\ expiry' = [expiry EXCEPT ![orderId] = orderTtlSeconds]
          /\ calls' = [Overwritten(orderId, c) EXCEPT ![c] =
                         [IdleCall EXCEPT !.op = "updateOrderStatus", !.orderId = orderId,
                                          !.resp = "ok"]]
     ELSE /\ calls' = [calls EXCEPT ![c] =
                         [IdleCall EXCEPT !.op = "updateOrderStatus", !.orderId = orderId,
                                          !.resp = "error"]]
          /\ UNCHANGED <<cache, expiry>>
  /\ UNCHANGED besideOrders

\* Time passes: every order key loses that much of its time to live, and a
\* key whose time to live ran out is deleted.
Elapse(seconds) ==
  /\ \E i \in OrderIds : cache[i] # NoOrder
  /\ LET gone == {i \in OrderIds : cache[i] # NoOrder /\ expiry[i] # NoExpiry
                                   /\ expiry[i] <= seconds} IN
     /\ cache' = [i \in OrderIds |-> IF i \in gone THEN NoOrder ELSE cache[i]]
     /\ expiry' = [i \in OrderIds |->
                     IF i \in gone THEN 0
                     ELSE IF cache[i] = NoOrder \/ expiry[i] = NoExpiry THEN expiry[i]
                     ELSE expiry[i] - seconds]
     /\ calls' = [d \in Callers |->
                    IF calls[d].op = "getOrder" /\ calls[d].orderId \in gone
                    THEN [calls[d] EXCEPT !.unwritten = FALSE]
                    ELSE calls[d]]
  /\ UNCHANGED besideOrders

StoreNext ==
  \/ \E c \in Callers, order \in StoreOrders, up \in BOOLEAN : CacheOrder(c, order, up)
  \/ \E orderId \in StoreIds, up \in BOOLEAN : GetOrder(1, orderId, up)
  \/ \E orderId \in StoreIds, status \in UpdateStatuses, processingTime \in UpdateTimes,
        up \in BOOLEAN : UpdateRead(1, orderId, status, processingTime, up)
  \/ \E up \in BOOLEAN : UpdateWrite(1, up)
  \/ \E seconds \in ElapsedSeconds : Elapse(seconds)

SpecStore == InitIdle /\ [][StoreNext]_vars

\* C22: updateOrderStatus on an id whose key is absent (never written, or
\* expired) ends at its read with the not-found error: it creates no entry
\* for the id and leaves every key and every time to live as it was.
C22_MissingOrderIsNotFound ==
  [][\A c \in Callers, orderId \in StoreIds, status \in UpdateStatuses,
        processingTime \in UpdateTimes, up \in BOOLEAN :
       (UpdateRead(c, orderId, status, processingTime, up) /\ cache[orderId] = NoOrder)
         => /\ calls'[c].resp = "not found"
            /\ calls'[c].pc = "idle"
            /\ cache'[orderId] = NoOrder
            /\ UNCHANGED <<cache, expiry, recent, metrics>>]_vars

\* an order expired, another is cached, and an update of the expired one failed
C22_Witness ==
  /\ calls[1].op = "updateOrderStatus" /\ calls[1].resp = "not found"
  /\ calls[1].orderId = 1 /\ cache[1] = NoOrder
  /\ cache[2] # NoOrder /\ expiry[2] = 1800
  /\ calls[2].op = "cacheOrder" /\ calls[2].orderId = 1 /\ calls[2].resp = "ok"

C30_UpdateChangesStatusOnly ==
  [][/\ \A c \in Callers :
          UpdateWrite(c, TRUE)
            => LET orderId == calls[c].orderId
                   before == calls[c].existing
                   after == cache'[orderId] IN
               /\ after.status = calls[c].status
               /\ after.processingTime = IF calls[c].processingTime # 0
                                         THEN calls[c].processingTime
                                         ELSE before.processingTime
               /\ after.id = before.id
               /\ after.customerId = before.customerId
               /\ after.items = before.items
               /\ after.totalAmount = before.totalAmount
               /\ after.retryCount = before.retryCount
               /\ expiry'[orderId] = 3600
               /\ \A i \in OrderIds \ {orderId} :
                    cache'[i] = cache[i] /\ expiry'[i] = expiry[i]
     /\ \A i \in OrderIds :
          /\ cache'[i] # NoOrder => expiry'[i] \in 1..3600
          /\ cache'[i] # cache[i] /\ cache'[i] # NoOrder => expiry'[i] = 3600]_vars

\* half of the time to live was gone when the update of a failed order that
\* had been retried once wrote its status and its processingTime
C30_Witness ==
  /\ calls[1].op = "updateOrderStatus" /\ calls[1].resp = "ok" /\ calls[1].orderId = 1
  /\ cache[1] = [NthOrder(1) EXCEPT !.status = "completed", !.processingTime = 7,
                                    !.retryCount = 1]
  /\ expiry[1] = 3600
  /\ cache[2] # NoOrder /\ expiry[2] = 1800

(***************************************************************************)
(* RedisService: the listeners of order updates.                           *)
(* subscribeToOrderUpdates pushes a callback on orderUpdateCallbacks.  The *)
(* subscriber connection hands every message to handleMessage, which is    *)
(* synchronous: it parses the message and, for an ORDER_UPDATE with an     *)
(* order on channel order-updates, calls every callback inside a try of    *)
(* its own.  forEach visits the callbacks that were registered when it     *)
(* started.  A callback returns, throws, or registers one more callback    *)
(* (one that returns).  since: the number of notifications received when   *)
(* the callback was registered.                                            *)
(***************************************************************************)
MaxListeners == 3
MaxNotifications == 2
ListenerKinds == {"returns", "throws", "subscribes"}
Channels == {"order-updates", "metrics-updates", "other"}
PubSubMessages == {"ORDER_UPDATE", "ORDER_UPDATE without order", "METRICS_UPDATE", "#garbage"}

Listener(id, kind, since) == [id |-> id, kind |-> kind, since |-> since]

\* Lines 281-287 without the try around the callback: the first callback
\* that throws ends the forEach.
RECURSIVE InvokeUntilThrow(_, _, _)
InvokeUntilThrow(callbacks, k, n) ==
  IF k > Len(callbacks) THEN <<>>
  ELSE IF callbacks[k].kind = "throws"
       THEN <<[notification |-> n, listener |-> callbacks[k].id]>>
       ELSE <<[notification |-> n, listener |-> callbacks[k].id]>>
              \o InvokeUntilThrow(callbacks, k + 1, n)

\* Lines 281-287: orderUpdateCallbacks.forEach(callback => { try {
\* callback(order) } catch { log } }), from the k-th callback on.
RECURSIVE InvokeAll(_, _, _)
InvokeAll(callbacks, k, n) ==
  IF k > Len(callbacks) THEN <<>>
  ELSE <<[notification |-> n, listener |-> callbacks[k].id]>>
         \o InvokeAll(callbacks, k + 1, n)

\* the callbacks that the invoked callbacks registered meanwhile
RECURSIVE Subscribed(_, _, _)
Subscribed(log, next, n) ==
  IF log = <<>> THEN <<>>
  ELSE LET l == CHOOSE l \in {listeners[j] : j \in 1..Len(listeners)} :
                  l.id = Head(log).listener IN
       IF l.kind = "subscribes"
       THEN <<Listener(next, "returns", n)>> \o Subscribed(Tail(log), next + 1, n)
       ELSE Subscribed(Tail(log), next, n)

besidePubSub == <<cache, expiry, recent, metrics, bus, clients, consumer, faults, locks,
                  lockers, tokens, rate, limiter, calls, inserted, gateway, kafka>>

\* Lines 270-272.
SubscribeToOrderUpdates(kind) ==
  /\ Len(listeners) < MaxListeners
  /\ listeners' = Append(listeners, Listener(Len(listeners) + 1, kind, received))
  /\ UNCHANGED <<besidePubSub, invoked, received>>

\* Lines 274-301: a message that does not parse is logged by the outer
\* catch; only an ORDER_UPDATE that carries an order, on order-updates, is
\* handed to the callbacks.
HandleMessage(channel, message) ==
  IF message # "#garbage" /\ channel = "order-updates" /\ message = "ORDER_UPDATE"
  THEN LET n == received + 1
           log == InvokeAll(listeners, 1, n)
           new == Subscribed(log, Len(listeners) + 1, n) IN
       /\ received < MaxNotifications
       /\ Len(listeners) + Len(new) <= MaxListeners
       /\ received' = n
       /\ invoked' = invoked \o log
       /\ listeners' = listeners \o new
       /\ UNCHANGED besidePubSub
  ELSE UNCHANGED vars

PubSubNext ==
  \/ \E kind \in ListenerKinds : SubscribeToOrderUpdates(kind)
  \/ \E channel \in Channels, message \in PubSubMessages : HandleMessage(channel, message)

SpecPubSub == InitIdle /\ [][PubSubNext]_vars

InvokedFor(n) == SelectSeq(invoked, LAMBDA e : e.notification = n)
RegisteredBefore(n) == SelectSeq(listeners, LAMBDA l : l.since < n)

\* C24: for every notification received, exactly the listeners registered
\* before it were invoked, once each and in registration order, those after
\* a listener that throws included; a listener registered later (or while
\* the notification was being delivered) was not invoked for it.
C24_ListenersInRegistrationOrder ==
  /\ \A e \in {invoked[j] : j \in 1..Len(invoked)} : e.notification \in 1..received
  /\ \A n \in 1..received :
       /\ Len(InvokedFor(n)) = Len(RegisteredBefore(n))
       /\ \A j \in 1..Len(InvokedFor(n)) :
            InvokedFor(n)[j].listener = RegisteredBefore(n)[j].id

\* a listener that throws is first, one registered during the first
\* notification and one registered after it heard only the second
C24_Witness ==
  /\ received = 2 /\ Len(listeners) = 3
  /\ listeners[1].kind = "throws" /\ listeners[1].since = 0
  /\ \E j \in 2..3 : listeners[j].since = 1
  /\ Len(InvokedFor(1)) < Len(InvokedFor(2))
  /\ Len(InvokedFor(1)) >= 2

(***************************************************************************)
(* OrderService.calculateMetrics as a function of the list that            *)
(* getRecentOrders(100) returns and of Date.now().  Of an entry only the   *)
(* status, the processingTime (0: none recorded) and the timestamp, in     *)
(* milliseconds, are used.  throughputPerMinute is kept in hundredths, the *)
(* unit the code rounds it to.                                             *)
(***************************************************************************)
MaxEntries == 3
OneHourMs == 60 * 60 * 1000
Clock == {2 * OneHourMs}

Entry(status, processingTime, timestamp) ==
  [status |-> status, processingTime |-> processingTime, timestamp |-> timestamp]

\* an entry of exactly one hour ago, and one a millisecond younger
EntryKinds ==
  {Entry(status, processingTime, timestamp) :
     status \in {"pending", "processing", "completed", "failed"},
     processingTime \in {0, 4, 7},
     timestamp \in {OneHourMs, OneHourMs + 1}}

\* ten completed and two failed orders of the last hour
Scenario12 ==
  [j \in 1..12 |-> IF j <= 10 THEN Entry("completed", 7, 2 * OneHourMs - j)
                              ELSE Entry("failed", 4, 2 * OneHourMs - j)]
\* a full list
Scenario100 ==
  [j \in 1..100 |-> IF j % 2 = 0 THEN Entry("completed", 0, 2 * OneHourMs - j)
                                 ELSE Entry("failed", 4, 2 * OneHourMs - j)]

MetricInputs ==
  UNION {[1..k -> EntryKinds] : k \in 0..MaxEntries} \cup {Scenario12, Scenario100}

RECURSIVE SumProcessingTime(_)
SumProcessingTime(list) ==
  IF list = <<>> THEN 0 ELSE Head(list).processingTime + SumProcessingTime(Tail(list))

\* Math.round(a / b) for a >= 0, b > 0
RoundDiv(a, b) == (2 * a + b) \div (2 * b)

\* Lines 341-345, 359: the mean over the completed entries with a truthy
\* processingTime, rounded to an integer; 0 when there is none.
averageProcessingTime(recentOrders) ==
  LET completedOrdersWithTime ==
        SelectSeq(recentOrders, LAMBDA o : o.status = "completed" /\ o.processingTime # 0) IN
  IF Len(completedOrdersWithTime) > 0
  THEN RoundDiv(SumProcessingTime(completedOrdersWithTime), Len(completedOrdersWithTime))
  ELSE 0

\* Lines 347-353 counting the completed and failed entries of any age.
recentlyProcessedAnyAge(recentOrders, now) ==
  SelectSeq(recentOrders, LAMBDA o : o.status \in {"completed", "failed"})

\* Lines 347-352: the entries with timestamp > now - 3600000 that are
\* completed or failed.
recentlyProcessed(recentOrders, now) ==
  LET oneHourAgo == now - OneHourMs IN
  SelectSeq(recentOrders,
            LAMBDA o : o.timestamp > oneHourAgo /\ o.status \in {"completed", "failed"})

\* Lines 353, 360: Math.round(length / 60 * 100) / 100, in hundredths.
throughputPerMinute(recentOrders, now) ==
  RoundDiv(Len(recentlyProcessed(recentOrders, now)) * 100, 60)

\* Lines 332-362: the six fields (at: the Date.now() of the computation).
calculateMetricsAt(list, now) ==
  LET recentOrders == getRecentOrders(list, 100)
      counts == calculateMetrics(list) IN
  [totalOrders |-> counts.totalOrders,
   completedOrders |-> counts.completedOrders,
   failedOrders |-> counts.failedOrders,
   pendingOrders |-> counts.pendingOrders,
   averageProcessingTime |-> averageProcessingTime(recentOrders),
   throughputPerMinute |-> throughputPerMinute(recentOrders, now),
   at |-> now]

\* the recent-orders list is any input; nothing else exists
InitMetrics ==
  /\ recent \in MetricInputs
  /\ cache = [i \in OrderIds |-> NoOrder]
  /\ expiry = [i \in OrderIds |-> 0]
  /\ metrics = NoMetrics
  /\ retryTrue = [i \in OrderIds |-> 0]
  /\ accepted = {}
  /\ webCalls = 0
  /\ topic = [i \in OrderIds |-> <<>>]
  /\ notifications = EmptyTopic
  /\ deadLetter = EmptyTopic
  /\ msIds = {}
  /\ web = [s \in WebSlots |-> [IdleWeb EXCEPT !.pc = "off"]]
  /\ retry = [s \in RetrySlots |-> [IdleRetry EXCEPT !.pc = "off"]]
  /\ retryCalls = 0
  /\ consumer = IdleConsumer
  /\ InitAux
  /\ GatewayDown

CalculateMetrics(now) ==
  /\ metrics' = calculateMetricsAt(recent, now)
  /\ UNCHANGED <<cache, expiry, recent, bus, clients, consumer, aux>>

MetricsNext == \E now \in Clock : CalculateMetrics(now)

SpecMetrics == InitMetrics /\ [][MetricsNext]_vars

\* the entries of the list with a status among these, and those of them
\* that are younger than an hour
WithStatusIn(statuses) == {j \in 1..Len(recent) : recent[j].status \in statuses}
WithinTheHour(statuses) ==
  {j \in WithStatusIn(statuses) : metrics.at - recent[j].timestamp < OneHourMs}

\* C25 as stated: the counts, the zero average, and a throughput of exactly
\* (completed or failed entries of the last hour) / 60.
C25_ThroughputIsCountOver60 ==
  metrics # NoMetrics
    => /\ metrics.totalOrders = Len(recent)
       /\ metrics.completedOrders = Cardinality(WithStatusIn({"completed"}))
       /\ metrics.failedOrders = Cardinality(WithStatusIn({"failed"}))
       /\ metrics.pendingOrders = Cardinality(WithStatusIn({"pending", "processing"}))
       /\ metrics.throughputPerMinute * 60
            = Cardinality(WithinTheHour({"completed", "failed"})) * 100

\* C25: totalOrders is the number of entries, completedOrders, failedOrders
\* and pendingOrders (pending or processing) the numbers per status, which
\* add up to totalOrders; averageProcessingTime is 0 when no completed entry
\* has a processingTime, else the mean over those entries rounded to an
\* integer; throughputPerMinute is (completed or failed entries of the last
\* hour) / 60 rounded to two decimals: 12, 10, 2 and 0.2 for ten completed
\* and two failed entries of the last hour.
C25_CountsAndRoundedThroughput ==
  metrics # NoMetrics
    => LET timed == {j \in WithStatusIn({"completed"}) : recent[j].processingTime # 0}
           total == SumProcessingTime(SelectSeq(recent,
                      LAMBDA o : o.status = "completed" /\ o.processingTime # 0))
           done == Cardinality(WithinTheHour({"completed", "failed"}))
           off == metrics.throughputPerMinute * 60 - done * 100
           away == 2 * (metrics.averageProcessingTime * Cardinality(timed) - total) IN
       /\ metrics.totalOrders = Len(recent)
       /\ metrics.completedOrders = Cardinality(WithStatusIn({"completed"}))
       /\ metrics.failedOrders = Cardinality(WithStatusIn({"failed"}))
       /\ metrics.pendingOrders = Cardinality(WithStatusIn({"pending", "processing"}))
       /\ metrics.totalOrders
            = metrics.completedOrders + metrics.failedOrders + metrics.pendingOrders
       /\ timed = {} => metrics.averageProcessingTime = 0
       /\ timed # {} => away <= Cardinality(timed) /\ -away < Cardinality(timed)
       /\ off <= 30 /\ -off < 30
       /\ recent = Scenario12
            => /\ metrics.totalOrders = 12 /\ metrics.completedOrders = 10
               /\ metrics.failedOrders = 2 /\ metrics.throughputPerMinute = 20

\* one completed entry of the last hour: 1 / 60 is returned as 0.02
C25_Witness ==
  /\ metrics # NoMetrics
  /\ Cardinality(WithinTheHour({"completed", "failed"})) = 1
  /\ metrics.throughputPerMinute = 2
  /\ Len(recent) = 3 /\ metrics.pendingOrders = 1
  /\ metrics.averageProcessingTime = 0 /\ metrics.completedOrders = 1

(***************************************************************************)
(* The pipeline with a store or a bus that does not execute a command:     *)
(* the awaited call throws.  cacheOrder, addToRecentOrders and             *)
(* publishOrderEvent throw on; publishNotification and updateMetrics catch *)
(* and log; handleOrderUpdated catches what publishOrderUpdate throws.     *)
(***************************************************************************)
Failed(command) ==
  [faults EXCEPT !.failed = IF @ < MaxFaults THEN @ + 1 ELSE @, !.command = command]

\* Lines 29-54, cacheOrder throwing: the catch of processWebhook (lines
\* 75-83) logs and throws on.  The order id was generated, nothing written.
WebCacheFails(s, payload) ==
  /\ web[s].pc = "idle"
  /\ \A t \in WebSlots : t < s => web[t].pc # "idle"
  /\ webCalls < MaxWebhooks * Cardinality({t \in WebSlots : web[t].pc # "off"})
  /\ faults.failed < MaxFaults
  /\ \E orderId \in GeneratedIds :
       /\ validateOrder(NewOrder(orderId, payload)) = "ok"
       /\ msIds' = msIds \cup {orderId}
  /\ webCalls' = webCalls + 1
  /\ web' = [web EXCEPT ![s] = [IdleWeb EXCEPT !.resp = -1]]
  /\ faults' = Failed("cacheOrder")
  /\ UNCHANGED <<store, bus, retry, retryCalls, retryTrue, accepted, consumer,
                 locks, lockers, tokens, rate, limiter, direct>>

\* Line 55 with the error of addToRecentOrders caught and logged.
WebRecentFailsSwallowed(s) ==
  /\ web[s].pc = "recent"
  /\ faults.failed < MaxFaults
  /\ web' = [web EXCEPT ![s].pc = "publish"]
  /\ faults' = Failed("addToRecentOrders")
  /\ UNCHANGED <<store, bus, msIds, webCalls, retry, retryCalls, retryTrue, accepted,
                 consumer, locks, lockers, tokens, rate, limiter, direct>>

\* Line 55, addToRecentOrders throwing: processWebhook throws, the order
\* stays cached as pending.
WebRecentFails(s) ==
  /\ web[s].pc = "recent"
  /\ faults.failed < MaxFaults
  /\ web' = [web EXCEPT ![s] = [IdleWeb EXCEPT !.resp = -1]]
  /\ faults' = Failed("addToRecentOrders")
  /\ UNCHANGED <<store, bus, msIds, webCalls, retry, retryCalls, retryTrue, accepted,
                 consumer, locks, lockers, tokens, rate, limiter, direct>>

\* Line 58, publishOrderEvent throwing (producer not connected, or send
\* rejected): processWebhook throws, the order stays cached and listed.
WebPublishFails(s) ==
  /\ web[s].pc = "publish"
  /\ faults.failed < MaxFaults
  /\ web' = [web EXCEPT ![s] = [IdleWeb EXCEPT !.resp = -1]]
  /\ faults' = Failed("publishOrderEvent")
  /\ UNCHANGED <<store, bus, msIds, webCalls, retry, retryCalls, retryTrue, accepted,
                 consumer, locks, lockers, tokens, rate, limiter, direct>>

\* Line 69, updateMetrics failing: its catch (lines 374-376) logs; lines
\* 71-74 return { orderId, message }.
WebMetricsFail(s) ==
  /\ web[s].pc = "metrics"
  /\ faults.failed < MaxFaults
  /\ accepted' = accepted \cup {web[s].order.id}
  /\ web' = [web EXCEPT ![s] = [IdleWeb EXCEPT !.resp = web[s].order.id]]
  /\ faults' = Failed("updateMetrics")
  /\ UNCHANGED <<store, bus, msIds, webCalls, retry, retryCalls, retryTrue, consumer,
                 locks, lockers, tokens, rate, limiter, direct>>

\* OrderService.updateOrderStatus lines 193-210, publishOrderEvent throwing
\* after the status was written: the catch of handleOrderCreated calls
\* failOrder; thrown by failOrder it reaches the catch of handleMessage.
\* (A bus that is still down when failOrder publishes is the same failure.)
HandlerPublishFails ==
  /\ consumer.pc = "u_pub"
  /\ faults.failed < MaxFaults \/ (consumer.inCatch /\ faults.command = "publishOrderEvent")
  /\ consumer' = IF ~consumer.inCatch
                 THEN [consumer EXCEPT !.pc = "u_get", !.inCatch = TRUE, !.target = "failed"]
                 ELSE [consumer EXCEPT !.pc = "dead_letter"]
  /\ faults' = Failed("publishOrderEvent")
  /\ UNCHANGED <<store, bus, clients, locks, lockers, tokens, rate, limiter, direct>>

\* completeOrder / failOrder with a publishNotification that throws on:
\* the catch of handleOrderCreated calls failOrder.
HandlerNotifyFailsThrows ==
  /\ consumer.pc = "notify"
  /\ faults.failed < MaxFaults
  /\ consumer' = IF ~consumer.inCatch
                 THEN [consumer EXCEPT !.pc = "u_get", !.inCatch = TRUE, !.target = "failed"]
                 ELSE [consumer EXCEPT !.pc = "dead_letter"]
  /\ faults' = Failed("publishNotification")
  /\ UNCHANGED <<store, bus, clients, locks, lockers, tokens, rate, limiter, direct>>

\* completeOrder lines 217-222 / failOrder lines 234-240, the send of
\* publishNotification failing: its catch (part_006 line 238) logs.
HandlerNotifyFails ==
  /\ consumer.pc = "notify"
  /\ faults.failed < MaxFaults
  /\ consumer' = IF consumer.inCatch THEN IdleConsumer
                 ELSE [consumer EXCEPT !.pc = "metrics"]
  /\ faults' = Failed("publishNotification")
  /\ UNCHANGED <<store, bus, clients, locks, lockers, tokens, rate, limiter, direct>>

\* Line 131, updateMetrics failing: its catch logs; handleOrderCreated returns.
HandlerMetricsFail ==
  /\ consumer.pc = "metrics"
  /\ faults.failed < MaxFaults
  /\ consumer' = IdleConsumer
  /\ faults' = Failed("updateMetrics")
  /\ UNCHANGED <<store, bus, clients, locks, lockers, tokens, rate, limiter, direct>>

\* handleOrderUpdated line 163, publishOrderUpdate throwing: the catch of
\* handleOrderUpdated (lines 178-183) logs; the notification is not sent.
UpdatedPublishFails ==
  /\ consumer.pc = "upd_pub"
  /\ faults.failed < MaxFaults
  /\ consumer' = IdleConsumer
  /\ faults' = Failed("publishOrderUpdate")
  /\ UNCHANGED <<store, bus, clients, locks, lockers, tokens, rate, limiter, direct>>

\* handleOrderUpdated lines 166-172, the send of publishNotification failing.
UpdatedNotifyFails ==
  /\ consumer.pc = "upd_notify"
  /\ faults.failed < MaxFaults
  /\ consumer' = IdleConsumer
  /\ faults' = Failed("publishNotification")
  /\ UNCHANGED <<store, bus, clients, locks, lockers, tokens, rate, limiter, direct>>

\* failures of the paths that processWebhook does not survive
CriticalFailure ==
  \/ \E s \in WebSlots, payload \in Payloads : WebCacheFails(s, payload)
  \/ \E s \in WebSlots : WebRecentFails(s)
  \/ \E s \in WebSlots : WebPublishFails(s)

\* failures that are logged and swallowed
SwallowedFailure ==
  \/ \E s \in WebSlots : WebMetricsFail(s)
  \/ HandlerNotifyFails
  \/ HandlerMetricsFail
  \/ UpdatedPublishFails
  \/ UpdatedNotifyFails

\* one processWebhook caller, the consumer, nobody retrying
InitOutage == InitWith(1, 0)

OutageNext ==
  \/ WebNext
  \/ ConsumerNext
  \/ Tick
  \/ CriticalFailure
  \/ SwallowedFailure
  \/ HandlerPublishFails
  \/ \E sent \in BOOLEAN : PublishToDeadLetter(sent)

SpecOutage == InitOutage /\ [][OutageNext]_vars

Listed(i) == \E j \in 1..Len(recent) : recent[j].id = i

\* C26: when the cache write, the insert in the recent-orders list or the
\* publish of the CREATED event fails, processWebhook ends with an error and
\* returns no order id, and publishes nothing afterwards; after a failed
\* cache write there is neither a key, nor a list entry, nor an event of the
\* order.  So every order id that was returned is cached-and-listed work.
C26_CriticalFailureFailsTheCall ==
  [][/\ \A s \in WebSlots :
          ((\E payload \in Payloads : WebCacheFails(s, payload))
             \/ WebRecentFails(s) \/ WebPublishFails(s))
            => /\ web'[s].pc = "idle"
               /\ web'[s].resp = -1
               /\ accepted' = accepted
               /\ topic' = topic
     /\ \A s \in WebSlots :
          (\E payload \in Payloads : WebCacheFails(s, payload))
            => UNCHANGED <<cache, recent, topic>>
     /\ \A i \in accepted' : Listed(i)']_vars

\* the publish failed: the caller got an error, the order is cached as
\* pending and listed, and no event of it exists
C26_Witness ==
  \E i \in OrderIds :
    /\ web[1].pc = "idle" /\ web[1].resp = -1
    /\ faults.command = "publishOrderEvent"
    /\ cache[i].status = "pending" /\ Listed(i)
    /\ topic[i] = <<>> /\ i \notin accepted
    /\ consumer = IdleConsumer

\* C27: a failed notification, a failed metrics update and a failed
\* order-update publish are swallowed: processWebhook still returns the
\* order id, no cached order changes, the handler does not enter its catch
\* and no message is dead-lettered; once the outcome of an attempt is
\* written, the handler only goes on to its notification, its metrics
\* update and its return, so the outcome stands.
C27_SwallowedFailureKeepsOutcome ==
  [][/\ SwallowedFailure
          => /\ UNCHANGED <<cache, expiry, topic, deadLetter>>
             /\ consumer'.inCatch => consumer.inCatch
             /\ consumer'.pc # "dead_letter"
             /\ \A s \in WebSlots : web'[s].resp = -1 => web[s].resp = -1
     /\ \A s \in WebSlots :
          WebMetricsFail(s)
            => web'[s].resp = web[s].order.id /\ web[s].order.id \in accepted'
     /\ (consumer.pc \in {"notify", "metrics"} /\ ~consumer.inCatch
           /\ consumer' # consumer)
          => \/ consumer' = IdleConsumer
             \/ /\ consumer'.pc = "metrics"
                /\ consumer'.target = consumer.target]_vars

\* the order was completed, its notification was not sent, the handler is
\* about to update the metrics
C27_Witness ==
  /\ consumer.pc = "metrics" /\ consumer.target = "completed"
  /\ faults.command = "publishNotification"
  /\ notifications = EmptyTopic
  /\ cache[consumer.event.order.id].status = "completed"

\* C28: read-modify-write sequences on one order exclude each other: at
\* most one of them (a retryFailedOrder call that has read the order and
\* not yet written retryCount + 1, or a status update of the consumer that
\* has read the order and not yet written the status) is between its read
\* and its write, so that no two retries write the same retryCount and no
\* status update writes over a retryCount it did not read.
C28_ReadModifyWriteIsExclusive ==
  \A i \in OrderIds :
    Cardinality({s \in RetrySlots : retry[s].pc = "set" /\ retry[s].order.id = i})
      + (IF consumer.pc = "u_set" /\ CurId = i THEN 1 ELSE 0) <= 1

\* the entries of the recent-orders list whose order is cached with a
\* status among these
ListedWithStatus(statuses) ==
  {j \in 1..Len(recent) : cache[recent[j].id].status \in statuses}

\* C29: every metrics snapshot that is computed counts each listed order by
\* the status the order has then: an order that was completed (or failed)
\* is counted in completedOrders (failedOrders) and not in pendingOrders.
C29_MetricsFollowOrderState ==
  [][(HandlerReturn \/ \E s \in WebSlots : WebReturn(s))
       => /\ metrics'.completedOrders = Cardinality(ListedWithStatus({"completed"}))
          /\ metrics'.failedOrders = Cardinality(ListedWithStatus({"failed"}))
          /\ metrics'.pendingOrders
               = Cardinality(ListedWithStatus({"pending", "processing"}))]_vars

(***************************************************************************)
(* handleOrderCreated, step by step.                                       *)
(***************************************************************************)
\* how far an invocation of handleOrderCreated is: 1..4 the update to
\* processing (read, write, read, publish), 5 the simulated work, 6..9 the
\* update to the outcome, 10 the outcome notification, 11 updateMetrics
Stage(c) ==
  LET second == IF c.target = "processing" THEN 0 ELSE 5 IN
  CASE c.pc = "u_get" -> 1 + second
    [] c.pc = "u_set" -> 2 + second
    [] c.pc = "u_get2" -> 3 + second
    [] c.pc = "u_pub" -> 4 + second
    [] c.pc = "simulate" -> 5
    [] c.pc = "notify" -> 10
    [] c.pc = "metrics" -> 11
    [] OTHER -> 0

\* C31: with the transports up, handling an ORDER_CREATED event of a cached
\* order goes through its steps once and in order: it writes the status
\* processing, after the simulated work it writes one of completed and failed
\* together with the processingTime, and it sends one outcome notification,
\* ORDER_COMPLETED after writing completed and ORDER_FAILED after writing
\* failed; it writes nothing else to the order and sends no other notification.
C31_CreatedIsProcessedThenResolved ==
  [][(/\ consumer' # consumer
      /\ "ORDER_CREATED" \in {consumer.event.type, consumer'.event.type})
       => /\ Stage(consumer') = (Stage(consumer) + 1) % 12
          /\ Stage(consumer') # 0 => CurId' = (IF Stage(consumer) = 0 THEN CurId' ELSE CurId)
          /\ Stage(consumer) \in 6..10 => /\ consumer.target \in {"completed", "failed"}
                                          /\ consumer.processingTime > 0
          /\ Stage(consumer) \in 6..9 => /\ consumer'.target = consumer.target
                                         /\ consumer'.processingTime = consumer.processingTime
          /\ cache' # cache => Stage(consumer) \in {2, 7}
          /\ Stage(consumer) = 2 =>
               /\ cache'[CurId].status = "processing"
               /\ \A i \in OrderIds \ {CurId} : cache'[i] = cache[i]
          /\ Stage(consumer) = 7 =>
               /\ cache'[CurId].status = consumer.target
               /\ cache'[CurId].processingTime = consumer.processingTime
               /\ \A i \in OrderIds \ {CurId} : cache'[i] = cache[i]
          /\ notifications' # notifications <=> Stage(consumer) = 10
          /\ Stage(consumer) = 10 =>
               /\ notifications'.last.orderId = CurId
               /\ notifications'.last.type =
                    (IF consumer.target = "completed" THEN "ORDER_COMPLETED"
                     ELSE "ORDER_FAILED")]_vars

\* the handler wrote failed with a processingTime and has sent ORDER_FAILED
C31_Witness ==
  /\ consumer.event.type = "ORDER_CREATED"
  /\ Stage(consumer) = 11
  /\ consumer.target = "failed"
  /\ cache[CurId].status = "failed"
  /\ cache[CurId].processingTime = consumer.processingTime
  /\ notifications.last = [type |-> "ORDER_FAILED", orderId |-> CurId, newStatus |-> "none"]

\* C32: an ORDER_CREATED event whose order the handler does not find in the
\* cache (never cached, or expired) leaves the store as it is: the update to
\* processing throws, so does failOrder in the catch, and handleMessage sends
\* one dead-letter record carrying the event (none when that send fails) and
\* returns; nothing is written to the store, no event and no notification is
\* published, and the consumer is idle for the next message.  The handler
\* writes an order key only after it has read the order.
C32_UncachedCreatedLeavesNoEntry ==
  [][(consumer' # consumer /\ consumer.event.type = "ORDER_CREATED")
       => /\ (\E i \in OrderIds : cache[i] = NoOrder /\ cache'[i] # NoOrder)
               => consumer.pc = "u_set"
          /\ (consumer.pc = "u_get" /\ cache[CurId] = NoOrder)
               => /\ UNCHANGED <<store, bus>>
                  /\ consumer'.event = consumer.event
                  /\ consumer'.inCatch
                  /\ consumer'.pc = (IF consumer.inCatch THEN "dead_letter" ELSE "u_get")
          /\ consumer.pc = "dead_letter"
               => /\ UNCHANGED <<store, topic, notifications>>
                  /\ consumer' = IdleConsumer
                  /\ \/ deadLetter' = deadLetter
                     \/ /\ deadLetter'.parity = 1 - deadLetter.parity
                        /\ deadLetter'.last.originalMessage = consumer.event]_vars

\* the event of an order that is not cached was dead-lettered and the
\* consumer is idle again, the order still not cached
C32_Witness ==
  /\ consumer = IdleConsumer
  /\ deadLetter.last # NoRecord
  /\ deadLetter.last.originalMessage.type = "ORDER_CREATED"
  /\ cache[deadLetter.last.originalMessage.order.id] = NoOrder

\* C33: handling an ORDER_UPDATED event does not roll the cached order back:
\* its write leaves the cached retryCount no smaller than it was and does not
\* replace the cached status by the status it was reached from (completed or
\* failed by processing, processing by pending, pending by failed); then one
\* ORDER_STATUS_CHANGED notification with the event's status is sent.
C33_UpdatedKeepsNewerFields ==
  [][(consumer' # consumer /\ consumer.event.type = "ORDER_UPDATED")
       => /\ (consumer.pc = "upd_cache" /\ cache[CurId] # NoOrder)
               => /\ cache'[CurId].retryCount >= cache[CurId].retryCount
                  /\ <<cache'[CurId].status, cache[CurId].status>> \notin StatusEdges
          /\ consumer.pc = "upd_notify"
               => notifications' = Send(notifications,
                    [type |-> "ORDER_STATUS_CHANGED", orderId |-> CurId,
                     newStatus |-> consumer.event.order.status])]_vars

(***************************************************************************)
(* WebSocketService.  A socket id is used by one connection.  The handlers *)
(* of connection, disconnect, subscribe and unsubscribe are synchronous;   *)
(* sendInitialData awaits getMetrics and then getRecentOrders(10), so it   *)
(* takes two steps, between which the socket can close: an emit on a       *)
(* closed socket sends nothing.  The subscriber connection hands a message *)
(* of order-updates to handleMessage, which calls the callback the service *)
(* registered, broadcastOrderUpdate: io.emit reaches every open socket,    *)
(* io.to(room).emit every open socket that joined the room.                *)
(***************************************************************************)
MaxUpdates == 1
ListLengths == {0, 12, 51}
QueryLimits == {-1, 0, 20, 200}
Rooms == {"order-updates"}
maxLimit == 50

\* the list after the orders 1..n were added
RecentOf(n) == [j \in 1..n |-> NthOrder(n - j + 1)]

\* the orders publishOrderUpdate is called with
UpdateOrders == {[SeedOrder EXCEPT !.status = s] : s \in {"processing", "completed"}}

besideSockets == <<cache, expiry, recent, bus, clients, consumer, faults, locks, lockers,
                   tokens, rate, limiter, calls, inserted, listeners, subscriber, kafka>>

\* the constructor ran (setupRedisSubscriptions registered the callback) and
\* the subscriber connection is subscribed; no client has connected
GatewayUp ==
  /\ subscriber = "subscribed"
  /\ listeners = <<[id |-> 1, kind |-> "broadcasts", since |-> 0]>>
  /\ orderUpdates = <<>>
  /\ connectedClients = {}
  /\ sockets = [c \in SocketIds |-> IdleSocket]
  /\ emitted = NoBroadcast

\* Lines 35-47: connectedClients.set(clientId, socket), sendInitialData starts.
Connection(c) ==
  /\ sockets[c].state = "new"
  /\ connectedClients' = connectedClients \cup {c}
  /\ sockets' = [sockets EXCEPT ![c].state = "open", ![c].pc = "metrics"]
  /\ UNCHANGED <<besideSockets, metrics, invoked, received, orderUpdates, emitted>>

\* sendInitialData lines 107-113: orderService.getMetrics (the cached
\* metrics, or calculateMetrics and cacheMetrics when none are cached), then
\* socket.emit('metrics-update').
SendInitialMetrics(c) ==
  /\ sockets[c].pc = "metrics"
  /\ metrics' = IF metrics = NoMetrics THEN calculateMetrics(recent) ELSE metrics
  /\ sockets' = [sockets EXCEPT ![c].pc = "orders",
                                ![c].metrics = IF sockets[c].state = "open" THEN metrics'
                                               ELSE @]
  /\ UNCHANGED <<besideSockets, invoked, received, orderUpdates, connectedClients, emitted>>

\* sendInitialData lines 115-130: getRecentOrders(10), socket.emit('initial-orders').
SendInitialOrders(c) ==
  /\ sockets[c].pc = "orders"
  /\ sockets' = [sockets EXCEPT ![c].pc = "idle",
                                ![c].orders = IF sockets[c].state = "open"
                                              THEN getRecentOrders(recent, 10) ELSE @]
  /\ UNCHANGED <<besideSockets, metrics, invoked, received, orderUpdates, connectedClients,
                 emitted>>

\* Lines 80-87 without the delete.
DisconnectKeepsEntry(c) ==
  /\ sockets[c].state = "open"
  /\ sockets' = [sockets EXCEPT ![c].state = "closed", ![c].rooms = {}]
  /\ UNCHANGED <<besideSockets, metrics, invoked, received, orderUpdates, connectedClients,
                 emitted>>

\* Lines 80-87: the socket closed (it left its rooms);
\* connectedClients.delete(clientId).
Disconnect(c) ==
  /\ sockets[c].state = "open"
  /\ connectedClients' = connectedClients \ {c}
  /\ sockets' = [sockets EXCEPT ![c].state = "closed", ![c].rooms = {}]
  /\ UNCHANGED <<besideSockets, metrics, invoked, received, orderUpdates, emitted>>

\* Lines 140-153: socket.join(channel) for every channel.
handleSubscription(c, channels) ==
  /\ sockets[c].state = "open"
  /\ sockets' = [sockets EXCEPT ![c].rooms = @ \cup channels]
  /\ UNCHANGED <<besideSockets, metrics, invoked, received, orderUpdates, connectedClients,
                 emitted>>

\* Lines 155-168: socket.leave(channel) for every channel.
handleUnsubscription(c, channels) ==
  /\ sockets[c].state = "open"
  /\ sockets[c].rooms # {}
  /\ sockets' = [sockets EXCEPT ![c].rooms = @ \ channels]
  /\ UNCHANGED <<besideSockets, metrics, invoked, received, orderUpdates, connectedClients,
                 emitted>>

\* Lines 222-248: getRecentOrders(Math.min(limit, 50)), socket.emit('recent-orders').
handleGetRecentOrders(c, limit) ==
  /\ sockets[c].state = "open"
  /\ sockets' = [sockets EXCEPT ![c].reply =
                   getRecentOrders(recent, IF limit < maxLimit THEN limit ELSE maxLimit)]
  /\ UNCHANGED <<besideSockets, metrics, invoked, received, orderUpdates, connectedClients,
                 emitted>>

\* RedisService.publishOrderUpdate called with an order.
PublishOrderUpdate(order) ==
  /\ received + Len(orderUpdates) < MaxUpdates
  /\ orderUpdates' = Published(order)
  /\ UNCHANGED <<besideSockets, metrics, invoked, received, socketio>>

\* Lines 273-291: io.emit('order-update') and io.to('order-updates').emit('order-update').
broadcastOrderUpdate(order) ==
  [order |-> order,
   copies |-> [c \in SocketIds |->
                 IF sockets[c].state # "open" THEN 0
                 ELSE 1 + (IF "order-updates" \in sockets[c].rooms THEN 1 ELSE 0)]]

\* subscriber.on('message') (redis.service.ts lines 59-61) with the message
\* published first: handleMessage calls every callback registered, among
\* them the one setupRedisSubscriptions registered (lines 250-257).
OnOrderUpdate ==
  /\ orderUpdates # <<>>
  /\ orderUpdates' = Tail(orderUpdates)
  /\ received' = received + 1
  /\ invoked' = invoked \o InvokeAll(listeners, 1, received + 1)
  /\ emitted' = IF \E j \in 1..Len(listeners) : listeners[j].kind = "broadcasts"
                THEN broadcastOrderUpdate(Head(orderUpdates))
                ELSE emitted
  /\ UNCHANGED <<besideSockets, metrics, connectedClients, sockets>>

SocketNext ==
  \E c \in SocketIds :
    \/ Connection(c)
    \/ SendInitialMetrics(c)
    \/ SendInitialOrders(c)
    \/ Disconnect(c)
    \/ handleSubscription(c, Rooms)
    \/ handleUnsubscription(c, Rooms)

GatewayNext ==
  \/ SocketNext
  \/ \E limit \in QueryLimits : handleGetRecentOrders(1, limit)
  \/ \E order \in UpdateOrders : PublishOrderUpdate(order)
  \/ OnOrderUpdate

\* the store holds a list of some length, with the metrics cached or not;
\* nothing runs but the gateway
InitGateway ==
  \E n \in ListLengths :
    /\ recent = RecentOf(n)
    /\ metrics \in {NoMetrics, calculateMetrics(RecentOf(n))}
    /\ cache = [i \in OrderIds |-> NoOrder]
    /\ expiry = [i \in OrderIds |-> 0]
    /\ retryTrue = [i \in OrderIds |-> 0]
    /\ accepted = {}
    /\ webCalls = 0
    /\ topic = [i \in OrderIds |-> <<>>]
    /\ notifications = EmptyTopic
    /\ deadLetter = EmptyTopic
    /\ msIds = {}
    /\ web = [s \in WebSlots |-> [IdleWeb EXCEPT !.pc = "off"]]
    /\ retry = [s \in RetrySlots |-> [IdleRetry EXCEPT !.pc = "off"]]
    /\ retryCalls = 0
    /\ consumer = IdleConsumer
    /\ InitAux
    /\ GatewayUp

SpecGateway == InitGateway /\ [][GatewayNext]_vars

\* C35: the recent-orders reply of the gateway never holds more than 50
\* orders, whatever limit was asked for (0 and negative limits included),
\* and never more than the list holds.
C35_ReplyHoldsAtMost50 ==
  \A c \in SocketIds :
    /\ Len(sockets[c].reply) <= maxLimit
    /\ Len(sockets[c].reply) <= Len(recent)

\* the sockets that are open
OpenSockets == {c \in SocketIds : sockets[c].state = "open"}

\* C36: after every connection and disconnect connectedClients holds exactly
\* the sockets that connected and did not disconnect; the initial data of a
\* connection go to the new socket and to no other: the metrics getMetrics
\* returns then, and the 10 most recent orders (all of them when the list
\* holds fewer).
C36_TracksOpenSockets ==
  [][/\ connectedClients' = {c \in SocketIds : sockets'[c].state = "open"}
     /\ \A c \in SocketIds :
          /\ (sockets[c].state = "new" /\ sockets'[c].state = "open")
               => sockets'[c].pc = "metrics"
          /\ (sockets[c].pc = "metrics" /\ sockets'[c].pc # "metrics" /\ c \in OpenSockets)
               => /\ sockets'[c].pc = "orders"
                  /\ sockets'[c].metrics
                       = (IF metrics = NoMetrics THEN calculateMetrics(recent) ELSE metrics)
                  /\ sockets'[c].metrics.totalOrders = Len(recent)
          /\ (sockets[c].pc = "orders" /\ sockets'[c].pc # "orders" /\ c \in OpenSockets)
               => /\ Len(sockets'[c].orders) = (IF Len(recent) < 10 THEN Len(recent) ELSE 10)
                  /\ \A j \in 1..Len(sockets'[c].orders) : sockets'[c].orders[j] = recent[j]
          /\ (sockets'[c].metrics # sockets[c].metrics \/ sockets'[c].orders # sockets[c].orders)
               => /\ sockets[c].pc \in {"metrics", "orders"}
                  /\ \A d \in SocketIds \ {c} : sockets'[d] = sockets[d]]_vars

\* one socket connected and disconnected, the other connected later and was
\* sent the metrics and the 10 latest of 12 orders
C36_Witness ==
  /\ \E c \in SocketIds : sockets[c].state = "closed" /\ sockets[c].pc = "idle"
  /\ \E c \in SocketIds :
       /\ connectedClients = {c}
       /\ sockets[c].state = "open" /\ sockets[c].pc = "idle"
       /\ sockets[c].metrics.totalOrders = 12
       /\ Len(sockets[c].orders) = 10 /\ Len(recent) = 12

\* C39: a broadcast of an order update sends one copy to every socket that
\* is open, in the order-updates room or not, and none to the others.
C39_OneCopyPerSocket ==
  [][received' # received
       => \A c \in SocketIds :
            emitted'.copies[c] = (IF c \in OpenSockets THEN 1 ELSE 0)]_vars

(***************************************************************************)
(* The pipeline with the gateway: webhooks, the consumer, the subscriber   *)
(* connection, and clients that connected before the first webhook, were   *)
(* sent their initial data, and now join the room or disconnect.           *)
(***************************************************************************)
InitRelay ==
  /\ InitPipeline(1, 0)
  /\ subscriber = "subscribed"
  /\ listeners = <<[id |-> 1, kind |-> "broadcasts", since |-> 0]>>
  /\ orderUpdates = <<>>
  /\ connectedClients = SocketIds
  /\ sockets = [c \in SocketIds |->
                  [IdleSocket EXCEPT !.state = "open", !.metrics = calculateMetrics(recent),
                                     !.orders = getRecentOrders(recent, 10)]]
  /\ emitted = NoBroadcast

RelayNext ==
  \/ WebNext
  \/ ConsumerNext
  \/ Tick
  \/ OnOrderUpdate
  \/ \E c \in SocketIds : Disconnect(c) \/ handleSubscription(c, Rooms)

SpecRelay == InitRelay /\ [][RelayNext]_vars

\* With the transports up the subscriber connection hands over every message
\* it received, as the server completes every command and consumes every
\* message fetched.
FairRelay ==
  SpecRelay /\ WF_vars(ConsumerNext \/ WebContinue \/ OnOrderUpdate)

\* Status s was written for order i and the update has not been broadcast:
\* the handler is between its write and the publish of the ORDER_UPDATED
\* event, the event waits on the topic, handleOrderUpdated has it and has not
\* published the order update, or the order update waits on the channel.
Owed(i, s) ==
  \/ /\ consumer.pc \in {"u_get2", "u_pub"}
     /\ CurId = i /\ consumer.target = s
  \/ \E j \in 1..Len(topic[i]) :
       topic[i][j].type = "ORDER_UPDATED" /\ topic[i][j].order.status = s
  \/ /\ consumer.pc \in {"upd_cache", "upd_pub"}
     /\ CurId = i /\ consumer.event.order.status = s
  \/ \E j \in 1..Len(orderUpdates) :
       orderUpdates[j].id = i /\ orderUpdates[j].status = s

\* C34: with the transports up and the consumer running, every status the
\* processor writes for an order (processing, completed, failed) is later
\* broadcast as an order update of that order with that status: the update
\* is owed from the write on, it stays owed until a broadcast of that order
\* with that status, and no update stays owed for ever; a broadcast carries
\* the order published first on the channel and reaches every socket that
\* is open then.
C34_WrittenStatusIsRelayed ==
  /\ [][/\ received' # received
             => /\ emitted'.order = Head(orderUpdates)
                /\ \A c \in OpenSockets : emitted'.copies[c] >= 1
        /\ \A i \in OrderIds : \A s \in {"processing", "completed", "failed"} :
             /\ (consumer.pc = "u_set" /\ consumer'.pc = "u_get2" /\ CurId = i
                 /\ consumer.target = s)
                  => cache'[i].status = s /\ Owed(i, s)'
             /\ (Owed(i, s) /\ ~Owed(i, s)')
                  => /\ received' # received
                     /\ emitted'.order.id = i /\ emitted'.order.status = s]_vars
  /\ \A i \in OrderIds : \A s \in {"processing", "completed", "failed"} :
       []<>(~Owed(i, s))

\* the update to failed reached two open sockets
C34_Witness ==
  /\ emitted.order.status = "failed"
  /\ cache[emitted.order.id].status = "failed"
  /\ \A c \in SocketIds : emitted.copies[c] >= 1

(***************************************************************************)
(* Graceful shutdown.  Application.setupGracefulShutdown closes the HTTP   *)
(* server and awaits KafkaService.disconnect(), which awaits               *)
(* producer.disconnect(), then consumer.disconnect(), then clears          *)
(* isConnected.  consumer.disconnect() hands no further message to         *)
(* eachMessage and resolves when the invocation that is running returned.  *)
(* A producer that is disconnected rejects send; while it is disconnecting *)
(* a send is accepted or rejected.  Calls of processWebhook that were      *)
(* accepted before the server closed go on.                                *)
(***************************************************************************)
besideKafka == <<store, bus, clients, consumer, faults, locks, lockers, tokens, rate, limiter,
                 calls, inserted, listeners, invoked, received, gateway>>

\* part_006 lines 56-58: isConnected holds, producer.disconnect() is called.
DisconnectStart ==
  /\ kafka.pc = "idle"
  /\ kafka.isConnected
  /\ kafka' = [kafka EXCEPT !.pc = "producer", !.producer = "disconnecting"]
  /\ UNCHANGED besideKafka

\* Lines 58-59: producer.disconnect() resolved, consumer.disconnect() is called.
ProducerDisconnected ==
  /\ kafka.pc = "producer"
  /\ kafka' = [kafka EXCEPT !.pc = "consumer", !.producer = "disconnected",
                            !.consumer = "stopping"]
  /\ UNCHANGED besideKafka

\* Lines 59-61: consumer.disconnect() resolved (no eachMessage is running),
\* isConnected = false.
ConsumerDisconnected ==
  /\ kafka.pc = "consumer"
  /\ consumer.pc = "idle"
  /\ kafka' = [kafka EXCEPT !.pc = "done", !.consumer = "disconnected",
                            !.isConnected = FALSE]
  /\ UNCHANGED besideKafka

\* producer.send resolving: publishOrderEvent (lines 69-108, isConnected
\* holding), publishNotification, publishToDeadLetter
ProducerSends ==
  \/ HandlerPublish
  \/ HandlerNotify
  \/ UpdatedNotify
  \/ PublishToDeadLetter(TRUE)
  \/ \E s \in WebSlots : WebPublish(s)

\* producer.send rejecting, or publishOrderEvent throwing at line 71
ProducerRejects ==
  \/ HandlerPublishFails
  \/ HandlerNotifyFails
  \/ UpdatedNotifyFails
  \/ PublishToDeadLetter(FALSE)
  \/ \E s \in WebSlots : WebPublishFails(s)

ShutdownNext ==
  \/ DisconnectStart
  \/ ProducerDisconnected
  \/ ConsumerDisconnected
  \/ kafka.pc = "idle" /\ \E s \in WebSlots, payload \in Payloads : WebStart(s, payload)
  \/ \E s \in WebSlots : WebRecent(s) \/ WebReturn(s)
  \/ kafka.consumer = "running" /\ \E key \in OrderIds : ConsumerTake(key)
  \/ HandlerGet
  \/ HandlerSet
  \/ HandlerGet2
  \/ \E isSuccess \in BOOLEAN, processingTime \in ProcTimes : Simulate(isSuccess, processingTime)
  \/ HandlerReturn
  \/ UpdatedCache
  \/ UpdatedPublish
  \/ kafka.producer # "disconnected" /\ ProducerSends
  \/ kafka.producer # "connected" /\ ProducerRejects
  \/ Tick

SpecShutdown == InitOutage /\ [][ShutdownNext]_vars

\* C37: shutdown drains the work in flight: the message handler that is
\* running when the bus disconnect starts has completed, its publishes
\* succeeding, before the producer is disconnected (no step of a handler
\* finds the producer disconnected and fails to publish), and once the bus
\* is disconnected publishOrderEvent fails and puts nothing on the orders
\* topic.
C37_ShutdownDrainsInFlight ==
  [][ /\ (kafka.producer = "disconnected" /\ consumer' # consumer) => faults' = faults
      /\ \A s \in WebSlots :
           (~kafka.isConnected /\ web[s].pc = "publish" /\ web'[s].pc # "publish")
           => (topic' = topic /\ web'[s].resp = -1) ]_vars

(***************************************************************************)
(* retryFailedOrder with a store or a bus that does not execute a command: *)
(* whatever cacheOrder or publishOrderEvent throws is caught at lines      *)
(* 489-492, logged, and answered with false.                               *)
(***************************************************************************)
\* Line 480, cacheOrder throwing: nothing was written.
RetrySetFails(s) ==
  /\ retry[s].pc = "set"
  /\ faults.failed < MaxFaults
  /\ retry' = [retry EXCEPT ![s] =
                 [IdleRetry EXCEPT !.resp = "false", !.orderId = retry[s].orderId]]
  /\ faults' = Failed("cacheOrder")
  /\ UNCHANGED <<store, bus, msIds, web, webCalls, retryCalls, retryTrue, accepted,
                 consumer, locks, lockers, tokens, rate, limiter, direct>>

\* Line 481, publishOrderEvent throwing: the retry order was cached at line 480.
RetryPublishFails(s) ==
  /\ retry[s].pc = "pub"
  /\ faults.failed < MaxFaults
  /\ retry' = [retry EXCEPT ![s] =
                 [IdleRetry EXCEPT !.resp = "false", !.orderId = retry[s].orderId]]
  /\ faults' = Failed("publishOrderEvent")
  /\ UNCHANGED <<store, bus, msIds, web, webCalls, retryCalls, retryTrue, accepted,
                 consumer, locks, lockers, tokens, rate, limiter, direct>>

RetryOutageNext ==
  \/ Next
  \/ \E s \in RetrySlots : RetrySetFails(s) \/ RetryPublishFails(s)

SpecRetryOutage == Init /\ [][RetryOutageNext]_vars

\* C38: a retryFailedOrder call that returns false, a transport failure
\* while publishing included, publishes no event and leaves the cached order
\* as the call found it (failed, with the retry count it read).
C38_RefusedRetryChangesNothing ==
  [][ \A s \in RetrySlots :
        (retry'[s] # retry[s] /\ retry'[s].resp = "false")
        => /\ topic' = topic
           /\ cache' = cache
           /\ retry[s].pc # "idle"
              => cache[retry[s].orderId] =
                   [retry[s].order EXCEPT !.status = "failed", !.retryCount = @ - 1] ]_vars

(***************************************************************************)
(* Quiescence of the pipeline.                                             *)
(***************************************************************************)
\* C40: handling an ORDER_UPDATED event puts nothing on the orders topic;
\* handling an ORDER_CREATED event puts only ORDER_UPDATED events there, one
\* per status update (each stage of the handler is passed at most once, so
\* two, which is at most three); and once the processWebhook and
\* retryFailedOrder calls are over and the consumer keeps running, the orders
\* topic becomes empty and stays empty.
C40_PipelineQuiesces ==
  /\ [][(consumer.pc # "idle" /\ consumer' # consumer)
          => /\ consumer.event.type = "ORDER_UPDATED" => topic' = topic
             /\ consumer.event.type = "ORDER_CREATED"
                => /\ Stage(consumer') > Stage(consumer) \/ consumer'.pc = "idle"
                   /\ \/ topic' = topic
                      \/ /\ Stage(consumer) \in {4, 9}
                         /\ LET event == topic'[CurId][Len(topic'[CurId])] IN
                              /\ topic' = [topic EXCEPT ![CurId] = Append(@, event)]
                              /\ event.type = "ORDER_UPDATED"
                              /\ event.order.id = CurId
                              /\ event.order.status = consumer.target]_vars
  /\ <>[](\A i \in OrderIds : topic[i] = <<>>)

\* an order was processed to its outcome, the ORDER_UPDATED events of its
\* handler were consumed in turn, and the topic is empty
C40_Witness ==
  /\ consumer.pc = "idle"
  /\ \A i \in OrderIds : topic[i] = <<>>
  /\ notifications.last.type = "ORDER_STATUS_CHANGED"
  /\ notifications.last.newStatus \in {"completed", "failed"}
  /\ cache[notifications.last.orderId].status = notifications.last.newStatus
====
